---- MODULE Spec2Model ----
(***************************************************************************)
(* Verification model of gleicon/ophid.                                    *)
(*                                                                         *)
(* The module holds one state machine per component, each with its own     *)
(* specification over the shared variable tuple:                           *)
(*   Spec      process supervisor   (internal/supervisor/manager.go)       *)
(*   ExtSpec   archive extractor    (internal/runtime/extractor.go)        *)
(*   RtSpec    runtime provisioner  (internal/runtime/manager.go)          *)
(*   InstSpec  tool installer       (internal/tool installer)              *)
(*   LbSpec    load balancer        (internal/proxy load balancer)         *)
(*   RtrSpec   request router       (internal/proxy router)                *)
(*   SrvSpec   proxy server         (internal/proxy/types.go)              *)
(*   PxSpec    reverse proxy        (internal/proxy/http_proxy.go)         *)
(*   RlSpec    rate-limited scanner (internal/security/sbom.go)            *)
(*   SdSpec    source detector      (internal/tool source detector)        *)
(*   QrySpec   vulnerability query  (internal/security/sbom.go)            *)
(*   DlSpec    runtime downloader   (internal/runtime downloader)          *)
(*   MwSpec    route middleware     (internal/proxy router)                *)
(*   CcSpec    critical count       (internal/security/sbom.go)            *)
(*   SaSpec    StopAll              (internal/supervisor/manager.go)       *)
(*   PsSpec    dependency parsers   (internal/security/parser.go)          *)
(*   VnSpec    tool environments    (internal/tool venv manager)           *)
(* A component's specification leaves the other components' variables at   *)
(* their initial values.                                                   *)
(***************************************************************************)
EXTENDS Integers, Sequences, FiniteSets, TLC

\* ------------------------------------------------------------------------
\* Bounds
\* ------------------------------------------------------------------------

\* number of Process records Start may allocate in one behaviour
MaxProcs == 2
\* number of entries in an archive
MaxEntries == 3
\* number of components in an archive entry's name
MaxNameLen == 2
\* symbolic links followed while resolving one path (the kernel's ELOOP limit)
MaxLinkDepth == 3
\* number of lines in the release notes the upstream API returns
MaxNoteLines == 2
\* number of installer calls in one behaviour
MaxOps == 2
\* number of packages a dependency file declares
MaxPkgs == 1
\* number of vulnerabilities in one answer of the vulnerability database
MaxVulns == 1
\* number of severity records of one vulnerability
MaxSeverities == 1
\* largest max_retries a configuration carries
MaxRetriesBound == 1
\* number of backends of a load balancer
NumBackends == 2
\* width in bits of the model's int32: LoadBalancer.current wraps at 2^31 in
\* the program and at 2^(CounterBits-1) here
CounterBits == 4
\* number of routes of a router
MaxRoutes == 2
\* number of times a server reloads its configuration
MaxReloads == 2
\* ticks of the clock in one refill period of the rate limiter
RefillTicks == 2
\* number of queries one scanner is asked for
MaxQueries == 3
\* number of parts, joined by "/", in a package specification
MaxSegs == 3
\* number of Download calls of one install
MaxCalls == 2
\* number of middleware configured on a route
MaxMiddleware == 2
\* number of vulnerabilities in the scan result CriticalCount is called on
MaxResultVulns == 2
\* number of severity records of one of those vulnerabilities
MaxSevRecords == 2
\* the longest requirements.txt line, in tokens
MaxLineTokens == 3

VARIABLES
    \* ---- supervisor: Manager and Process
    processes,      \* Manager.processes: name -> record id, 0 when absent
    mu,             \* Manager.mu: 0 when free, else the thread holding it
    Config,         \* Process.Config per record
    Status,         \* Process.Status per record ("none": record not allocated)
    RestartCount,   \* Process.RestartCount per record
    Cmd,            \* Process.Cmd: state of the record's current child
    exitErr,        \* whether the current child's Wait reports an error
    monPc,          \* position of the record's monitorProcess goroutine
    monErr,         \* err held by the monitor after Cmd.Wait returned
    spawned,        \* history: children the monitor re-spawned for the record
    stopOk,         \* history: records a successful Stop marked stopped and deleted
    tpc,            \* position of each API caller
    top,            \* operation the caller is in
    tname,          \* name argument of the caller's operation
    trec,           \* record the caller works on
    tcfg,           \* configuration Restart looked up for its Start
    tres,           \* result of the caller's last finished operation
    tpre,           \* history: the configuration of the running record Stop
                    \* found under the name (NoConfig when it found none)
    \* ---- extractor: one Extract call on a filesystem
    fs,             \* the filesystem: existing path -> node
    written,        \* history: canonical locations Extract created or wrote
    extPc,          \* position of Extract: "open", "entries", "done", "error"
    extCount,       \* archive entries read so far
    \* ---- runtime manager: installs under <home>/runtimes
    rtCache,        \* <home>/cache/downloads: runtime type -> archive content
    rtDir,          \* <home>/runtimes/<type>-<version>: "none", "partial", "complete"
    rtLog,          \* history: what the last InstallFromSpec call did
    \* ---- tool installer: manifest, environments, clone and source tree
    srcTree,        \* manifest files of the project (local directory, upstream)
    instMem,        \* Installer.manifest.Tools: tool name -> Tool
    instDisk,       \* <home>/tools/manifest.json
    instEnv,        \* <home>/tools/<name>: "none", "dir" or "venv"
    instClone,      \* <home>/cache/git/<repo>
    instLocal,      \* the local source directory beside its manifest files
    instLog,        \* history: what the last installer call did
    instOps,        \* installer calls made so far
    instClean,      \* history: every call so far was a successful Install or
                    \* Uninstall on the installer constructed first
    \* ---- load balancer: one LoadBalancer and the threads selecting on it
    lbStatus,       \* Health.Status of each backend
    lbCurrent,      \* LoadBalancer.current
    lbStrategy,     \* LoadBalancer.strategy
    lbPc,           \* position of each thread in SelectBackend
    lbScan,         \* healthyBackends: the next backend the thread reads
    lbSnap,         \* healthyBackends: the healthy backends collected so far
    lbRet,          \* the backend SelectBackend returned to the thread
    lbRetStatus,    \* history: that backend's status at the instant of return
    lbPicks,        \* history: the latest round-robin picks on all backends
    \* ---- router: the route table and the request served last
    rtrRoutes,      \* Router.routes
    rtrReq,         \* the request ServeHTTP served last
    rtrServed,      \* the position of the route that served it, 0 for a 404
    \* ---- proxy server: the routers and the listeners
    srvTLS,         \* Config.TLS of the configuration the server was built from
    srvRouter,      \* Server.router: the router Reload built last
    srvHttp,        \* Server.httpServer: the handler it serves with
    srvHttps,       \* Server.httpsServer: the handler it serves with
    srvLast,        \* the result of the last Reload
    reqPc,          \* position of each request
    reqRouter,      \* the router serving the request
    reqExpect,      \* history: Server.router when the request arrived
    \* ---- reverse proxy: the requests served on one route
    pxRoute,        \* the Backends and Target of the route
    pxHealth,       \* Backend.Health of each backend of the route: a pointer
    pxStatus,       \* Health.Status of each Health object
    pxConns,        \* Health.Connections of each Health object
    pxPc,           \* position of each request
    pxIdx,          \* NewLoadBalancer: the backend its loop is at
    pxBackend,      \* the backend SelectBackend returned
    pxDefer,        \* the Health the deferred DecrementConnections is bound to
    pxResp,         \* the status written, none when the handler panicked
    pxNoHealthy,    \* history: the route had no healthy backend at selection
    pxContacted,    \* history: the request was sent to a backend
    pxPicks,        \* history: the latest picks made in a row with every backend healthy
    \* ---- scanner: the rate limiter and the queries of one Scanner
    rlNow,          \* the time, in ticks
    rlTokens,       \* rate.Limiter: the tokens in the bucket, in ticks of refill
    rlLast,         \* rate.Limiter: the time the tokens were last brought up to date
    rlMu,           \* RateLimiter.mu: the caller holding it
    rlPc,           \* position of each caller of ScanPackage
    rlActAt,        \* the instant the caller's token is for
    rlStarted,      \* queries started so far
    rlGrants,       \* history: the instants of the tokens handed out
    rlSent,         \* history: the times the requests were sent
    \* source detector
    sdSpec,         \* the package specification given by the user
    sdOpt,          \* opts.Source.Type
    sdExists,       \* does os.Stat find the specification as a path
    sdOut,          \* what DetectSource returned
    \* vulnerability query
    qCaller,        \* who built the Package of the query
    qName,          \* the package name, a sequence of characters
    qVersion,       \* the version, a sequence of characters
    qPc,            \* where ScanPackage is
    qTokens,        \* the rate-limit tokens taken
    qSent,          \* the requests made to the database: their ecosystem labels
    \* downloader
    dlFile,         \* the archive at its final name in the cache
    dlPc,           \* where each install is in Download
    dlHoles,        \* the installs whose file was truncated under them
    dlGot,          \* the archive each install was handed
    dlCalls,        \* the Download calls each install has made
    \* middleware of a route
    mwList,         \* route.MiddlewareList: the types configured
    mwMatched,      \* does the request match the route
    mwClient,       \* the client address of the request
    mwAllow,        \* would the rate limiter of each client allow a request
    mwApplied,      \* the middleware that ran around the handler
    mwOut,          \* the answer to the request
    \* critical count of a scan result
    ccVulns,        \* ScanResult.Vulnerabilities: the severity records of each
    ccDone,         \* has CriticalCount been called
    ccCount,        \* what CriticalCount returned
    \* ---- supervisor: one StopAll call over several registered processes
    saProcs,        \* Manager.processes: name -> status of its record ("absent": none)
    saPc,           \* position of StopAll: "idle", "loop", "returned"
    saNames,        \* the names slice StopAll collected and has not stopped yet
    saRet,          \* what StopAll returned
    \* ---- dependency parsers: one manifest entry, parsed and then scanned
    psFile,         \* the manifest parsed: requirements.txt, go.mod or package.json
    psLine,         \* the line of the text manifest the parser is at
    psInRequire,    \* ParseGoMod: inRequire when the line is read
    psDep,          \* the dependency entry of package.json the parser is at
    psPc,           \* "parse", then "emitted" or "skipped", then "scanned"
    psPkg,          \* the Package the parser appended
    psErr,          \* the error ScanPackages recorded for it, "nil" for none
    \* ---- tool environments: where Install and Uninstall put a tool's venv
    vnName,         \* the name given to Install and Uninstall
    vnExists,       \* the name is the path of an existing Python project
    vnPc,           \* "idle", "installed", "failed", "uninstalled"
    vnCreated,      \* the directory VenvManager.Create made, as path elements
    vnRemoved       \* the directory VenvManager.Remove deleted, as path elements

supVars == <<processes, mu, Config, Status, RestartCount, Cmd, exitErr, monPc,
             monErr, spawned, stopOk, tpc, top, tname, trec, tcfg, tres, tpre>>

extVars == <<fs, written, extPc, extCount>>

rtVars == <<rtCache, rtDir, rtLog>>

instVars == <<srcTree, instMem, instDisk, instEnv, instClone, instLocal,
              instLog, instOps, instClean>>

lbVars == <<lbStatus, lbCurrent, lbStrategy, lbPc, lbScan, lbSnap, lbRet,
            lbRetStatus, lbPicks>>

rtrVars == <<rtrRoutes, rtrReq, rtrServed>>

srvVars == <<srvTLS, srvRouter, srvHttp, srvHttps, srvLast, reqPc, reqRouter,
             reqExpect>>

pxVars == <<pxRoute, pxHealth, pxStatus, pxConns, pxPc, pxIdx, pxBackend,
            pxDefer, pxResp, pxNoHealthy, pxContacted, pxPicks>>

rlVars == <<rlNow, rlTokens, rlLast, rlMu, rlPc, rlActAt, rlStarted, rlGrants,
            rlSent>>

sdVars == <<sdSpec, sdOpt, sdExists, sdOut>>

qryVars == <<qCaller, qName, qVersion, qPc, qTokens, qSent>>

dlVars == <<dlFile, dlPc, dlHoles, dlGot, dlCalls>>

mwVars == <<mwList, mwMatched, mwClient, mwAllow, mwApplied, mwOut>>

ccVars == <<ccVulns, ccDone, ccCount>>

saVars == <<saProcs, saPc, saNames, saRet>>

psVars == <<psFile, psLine, psInRequire, psDep, psPc, psPkg, psErr>>

vnVars == <<vnName, vnExists, vnPc, vnCreated, vnRemoved>>

vars == <<supVars, extVars, rtVars, instVars, lbVars, rtrVars, srvVars
    , pxVars, rlVars, sdVars, qryVars, dlVars, mwVars, ccVars, saVars
    , psVars, vnVars>>

\* ------------------------------------------------------------------------
\* Supervisor
\* ------------------------------------------------------------------------

Names == {"a"}
Recs == 1..MaxProcs

\* the callers of the Manager: an API client and the health-check goroutine
\* (HealthChecker.StartMonitoring runs checkAll on one goroutine)
Threads == {"api", "hc"}

StatusStopped == "stopped"
StatusStarting == "starting"
StatusRunning == "running"
StatusFailed == "failed"

NoConfig == [Name |-> "", AutoRestart |-> FALSE, MaxRetries |-> 0]

\* the configurations callers start: max_retries only matters with auto_restart
ProcessConfig ==
    {c \in [Name : Names, AutoRestart : BOOLEAN, MaxRetries : 0..MaxRetriesBound] :
        ~c.AutoRestart => c.MaxRetries = 0}

\* Process.IsRunning
IsRunning(r) == Status[r] = StatusRunning

\* the next record Start allocates (0 when the bound is used up)
FreeRec == IF \E r \in Recs : Status[r] = "none"
           THEN CHOOSE r \in Recs : Status[r] = "none" /\ \A q \in Recs : Status[q] = "none" => r <= q
           ELSE 0

SupInit ==
    /\ processes = [n \in Names |-> 0]
    /\ mu = ""
    /\ Config = [r \in Recs |-> NoConfig]
    /\ Status = [r \in Recs |-> "none"]
    /\ RestartCount = [r \in Recs |-> 0]
    /\ Cmd = [r \in Recs |-> "nil"]
    /\ exitErr = [r \in Recs |-> FALSE]
    /\ monPc = [r \in Recs |-> "none"]
    /\ monErr = [r \in Recs |-> FALSE]
    /\ spawned = [r \in Recs |-> 0]
    /\ stopOk = {}
    /\ tpc = [t \in Threads |-> "idle"]
    /\ top = [t \in Threads |-> "none"]
    /\ tname = [t \in Threads |-> ""]
    /\ trec = [t \in Threads |-> 0]
    /\ tcfg = [t \in Threads |-> NoConfig]
    /\ tres = [t \in Threads |-> "none"]
    /\ tpre = [t \in Threads |-> NoConfig]

\* a caller returns from its operation with result res
Return(t, res) ==
    /\ tpc' = [tpc EXCEPT ![t] = "returned"]
    /\ tres' = [tres EXCEPT ![t] = res]
    /\ trec' = [trec EXCEPT ![t] = 0]
    /\ tcfg' = [tcfg EXCEPT ![t] = NoConfig]

\* the caller has taken the result and is free for its next call
Done(t) ==
    /\ tpc[t] = "returned"
    /\ tpc' = [tpc EXCEPT ![t] = "idle"]
    /\ top' = [top EXCEPT ![t] = "none"]
    /\ tname' = [tname EXCEPT ![t] = ""]
    /\ tres' = [tres EXCEPT ![t] = "none"]
    /\ tpre' = [tpre EXCEPT ![t] = NoConfig]
    /\ UNCHANGED <<processes, mu, Config, Status, RestartCount, Cmd, exitErr,
                   monPc, monErr, spawned, stopOk, trec, tcfg>>

\* Manager.startProcess, line 169: the status a successful spawn sets
SpawnedStatus == StatusRunning

\* Manager.Start, lines 26-56, under Manager.mu from entry to return: reject
\* a running name; create the record (status starting), spawn the child
\* (startProcess), then status running, register the record and start its
\* monitor; a failed spawn marks the never-registered record failed and
\* returns an error.
StartBody(t, cfg, ok) ==
    /\ mu = ""
    /\ IF processes[cfg.Name] # 0 /\ IsRunning(processes[cfg.Name])
       THEN /\ Return(t, "err_already_running")
            /\ UNCHANGED <<processes, Config, Status, Cmd, monPc>>
       ELSE IF ~ok
       THEN /\ Return(t, "err_start")
            /\ UNCHANGED <<processes, Config, Status, Cmd, monPc>>
       ELSE /\ FreeRec # 0
            /\ Config' = [Config EXCEPT ![FreeRec] = cfg]
            /\ Status' = [Status EXCEPT ![FreeRec] = SpawnedStatus]
            /\ Cmd' = [Cmd EXCEPT ![FreeRec] = "alive"]
            /\ processes' = [processes EXCEPT ![cfg.Name] = FreeRec]
            /\ monPc' = [monPc EXCEPT ![FreeRec] = "wait"]
            /\ Return(t, "ok")
    /\ UNCHANGED <<mu, RestartCount, exitErr, monErr, spawned, stopOk>>

Start(t, cfg, ok) ==
    /\ t = "api"
    /\ tpc[t] = "idle"
    /\ top' = [top EXCEPT ![t] = "start"]
    /\ tname' = [tname EXCEPT ![t] = cfg.Name]
    /\ tpre' = [tpre EXCEPT ![t] = NoConfig]
    /\ StartBody(t, cfg, ok)

\* Manager.Stop, lines 59-77: take the lock, look the name up, check that it
\* is running, Cmd.Process.Kill.  Killing a child whose Wait has already
\* returned fails (os.ErrProcessDone) and Stop returns that error; a live
\* child dies by the signal, an exited one is left as it is.
StopEnter(t, name) ==
    /\ mu = ""
    /\ tpre' = [tpre EXCEPT ![t] = IF processes[name] # 0 /\ IsRunning(processes[name])
                                  THEN Config[processes[name]] ELSE NoConfig]
    /\ IF processes[name] = 0
       THEN /\ Return(t, "err_not_found")
            /\ UNCHANGED <<mu, Cmd, exitErr>>
       ELSE IF ~IsRunning(processes[name])
       THEN /\ Return(t, "err_not_running")
            /\ UNCHANGED <<mu, Cmd, exitErr>>
       ELSE IF Cmd[processes[name]] = "reaped"
       THEN /\ Return(t, "err_kill")
            /\ UNCHANGED <<mu, Cmd, exitErr>>
       ELSE /\ mu' = t
            /\ Cmd' = [Cmd EXCEPT ![processes[name]] = "exited"]
            /\ exitErr' = [exitErr EXCEPT ![processes[name]] =
                              IF Cmd[processes[name]] = "alive" THEN TRUE ELSE @]
            /\ trec' = [trec EXCEPT ![t] = processes[name]]
            /\ tpc' = [tpc EXCEPT ![t] = "stop_finish"]
            /\ UNCHANGED <<tres, tcfg>>
    /\ UNCHANGED <<processes, Config, Status, RestartCount, monPc, monErr, spawned, stopOk>>

Stop(t, name) ==
    /\ t = "api"
    /\ tpc[t] = "idle"
    /\ top' = [top EXCEPT ![t] = "stop"]
    /\ tname' = [tname EXCEPT ![t] = name]
    /\ StopEnter(t, name)

\* Stop forgetting the delete of line 80
StopRegistryKept(name) == processes

\* what Manager.Stop leaves in the registry for the stopped name (line 80)
StopRegistry(name) == [processes EXCEPT ![name] = 0]

\* what Manager.Stop sets the record's status to (line 79)
StopStatus(r) == [Status EXCEPT ![r] = StatusStopped]

\* Manager.Stop, lines 79-82: mark stopped, delete from the registry, unlock.
\* Inside Restart the caller goes on to look the name up again.
StopFinish(t) ==
    /\ tpc[t] = "stop_finish"
    /\ Status' = StopStatus(trec[t])
    /\ processes' = StopRegistry(tname[t])
    /\ stopOk' = stopOk \cup {trec[t]}
    /\ mu' = ""
    /\ IF top[t] = "stop"
       THEN Return(t, "ok")
       ELSE /\ tpc' = [tpc EXCEPT ![t] = "restart_lookup"]
            /\ trec' = [trec EXCEPT ![t] = 0]
            /\ UNCHANGED <<tres, tcfg>>
    /\ UNCHANGED <<Config, RestartCount, Cmd, exitErr, monPc, monErr, spawned,
                   top, tname, tpre>>

\* Manager.Restart, line 87: Stop(name); its error is Restart's result.
Restart(t, name) ==
    /\ t = "api"
    /\ tpc[t] = "idle"
    /\ top' = [top EXCEPT ![t] = "restart"]
    /\ tname' = [tname EXCEPT ![t] = name]
    /\ StopEnter(t, name)

\* HealthChecker.checkAll, lines 258-283: a running process whose probe
\* fails (the probe's outcome is the environment's choice) is restarted when
\* auto_restart is set.
HealthProbeFail(t, name) ==
    /\ t = "hc"
    /\ tpc[t] = "idle"
    /\ processes[name] # 0
    /\ IsRunning(processes[name])
    /\ Config[processes[name]].AutoRestart
    /\ top' = [top EXCEPT ![t] = "restart"]
    /\ tname' = [tname EXCEPT ![t] = name]
    /\ StopEnter(t, name)

\* Manager.Restart, lines 91-97: look the name up again after Stop.
RestartLookup(t) ==
    /\ tpc[t] = "restart_lookup"
    /\ mu = ""
    /\ IF processes[tname[t]] = 0
       THEN Return(t, "err_not_found_after_stop")
       ELSE /\ tcfg' = [tcfg EXCEPT ![t] = Config[processes[tname[t]]]]
            /\ tpc' = [tpc EXCEPT ![t] = "restart_start"]
            /\ UNCHANGED <<tres, trec>>
    /\ UNCHANGED <<processes, mu, Config, Status, RestartCount, Cmd, exitErr,
                   monPc, monErr, spawned, stopOk, top, tname, tpre>>

\* Manager.Restart, line 99: Start with the configuration just looked up.
RestartStart(t, ok) ==
    /\ tpc[t] = "restart_start"
    /\ StartBody(t, tcfg[t], ok)
    /\ UNCHANGED <<top, tname, tpre>>

\* the child of record r exits by itself, with or without an error status
ChildExit(r, err) ==
    /\ Cmd[r] = "alive"
    /\ Cmd' = [Cmd EXCEPT ![r] = "exited"]
    /\ exitErr' = [exitErr EXCEPT ![r] = err]
    /\ UNCHANGED <<processes, mu, Config, Status, RestartCount, monPc, monErr,
                   spawned, stopOk, tpc, top, tname, trec, tcfg, tres, tpre>>

\* monitorProcess, line 177: Cmd.Wait returns once the child has exited.
MonWait(r) ==
    /\ monPc[r] = "wait"
    /\ Cmd[r] = "exited"
    /\ Cmd' = [Cmd EXCEPT ![r] = "reaped"]
    /\ monErr' = [monErr EXCEPT ![r] = exitErr[r]]
    /\ exitErr' = [exitErr EXCEPT ![r] = FALSE]
    /\ monPc' = [monPc EXCEPT ![r] = "exited"]
    /\ UNCHANGED <<processes, mu, Config, Status, RestartCount,
                   spawned, stopOk, tpc, top, tname, trec, tcfg, tres, tpre>>

\* monitorProcess, line 180: SetStatus(StatusStopped).
MonSetStopped(r) ==
    /\ monPc[r] = "exited"
    /\ Status' = [Status EXCEPT ![r] = StatusStopped]
    /\ monPc' = [monPc EXCEPT ![r] = "decide"]
    /\ UNCHANGED <<processes, mu, Config, RestartCount, Cmd, exitErr, monErr,
                   spawned, stopOk, tpc, top, tname, trec, tcfg, tres, tpre>>

\* the auto-restart condition with the comparison off by one
ShouldRestartInclusive(r) == Config[r].AutoRestart /\ RestartCount[r] <= Config[r].MaxRetries

\* monitorProcess, line 183: the auto-restart condition.
ShouldRestart(r) == Config[r].AutoRestart /\ RestartCount[r] < Config[r].MaxRetries

\* the final status without the failed branch of lines 201-203
FinalStatusKept(r) == Status[r]

\* monitorProcess, lines 200-207: the status after an exit that is not
\* followed by a restart.
FinalStatus(r) == IF monErr[r] THEN StatusFailed ELSE Status[r]

\* monitorProcess, lines 183-189 and 200-207: count the restart and sleep,
\* or finish (failed when Wait returned an error).
MonDecide(r) ==
    /\ monPc[r] = "decide"
    /\ IF ShouldRestart(r)
       THEN /\ RestartCount' = [RestartCount EXCEPT ![r] = @ + 1]
            /\ monPc' = [monPc EXCEPT ![r] = "sleep"]
            /\ UNCHANGED Status
       ELSE /\ Status' = [Status EXCEPT ![r] = FinalStatus(r)]
            /\ monPc' = [monPc EXCEPT ![r] = IF monErr[r] THEN "done_err" ELSE "done_ok"]
            /\ UNCHANGED RestartCount
    /\ monErr' = [monErr EXCEPT ![r] = FALSE]
    /\ UNCHANGED <<processes, mu, Config, Cmd, exitErr, spawned, stopOk, tpc,
                   top, tname, trec, tcfg, tres, tpre>>

\* monitorProcess, lines 189-199 with Manager.startProcess: after the backoff
\* re-spawn the child (status running, monitor again) or give up (failed).
MonRestart(r, ok) ==
    /\ monPc[r] = "sleep"
    /\ IF ok
       THEN /\ Cmd' = [Cmd EXCEPT ![r] = "alive"]
            /\ Status' = [Status EXCEPT ![r] = SpawnedStatus]
            /\ spawned' = [spawned EXCEPT ![r] = @ + 1]
            /\ monPc' = [monPc EXCEPT ![r] = "wait"]
       ELSE /\ Status' = [Status EXCEPT ![r] = StatusFailed]
            /\ monPc' = [monPc EXCEPT ![r] = "done_spawn"]
            /\ UNCHANGED <<Cmd, spawned>>
    /\ UNCHANGED <<processes, stopOk, mu, Config, RestartCount, exitErr, monErr, tpc,
                   top, tname, trec, tcfg, tres, tpre>>

SupNext ==
    \/ \E t \in Threads, cfg \in ProcessConfig, ok \in BOOLEAN : Start(t, cfg, ok)
    \/ \E t \in Threads, n \in Names : Stop(t, n)
    \/ \E t \in Threads : StopFinish(t)
    \/ \E t \in Threads, n \in Names : Restart(t, n)
    \/ \E t \in Threads, n \in Names : HealthProbeFail(t, n)
    \/ \E t \in Threads : RestartLookup(t)
    \/ \E t \in Threads, ok \in BOOLEAN : RestartStart(t, ok)
    \/ \E t \in Threads : Done(t)
    \/ \E r \in Recs, err \in BOOLEAN : ChildExit(r, err)
    \/ \E r \in Recs : MonWait(r)
    \/ \E r \in Recs : MonSetStopped(r)
    \/ \E r \in Recs : MonDecide(r)
    \/ \E r \in Recs, ok \in BOOLEAN : MonRestart(r, ok)


\* ------------------------------------------------------------------------
\* Supervisor: properties
\* ------------------------------------------------------------------------

\* the monitor of record r has returned without re-spawning
MonDone(r) == monPc[r] \in {"done_ok", "done_err", "done_spawn"}

ExhaustedExit(r) ==
    /\ monPc[r] = "decide"
    /\ monPc'[r] # "decide"
    /\ Config[r].AutoRestart
    /\ RestartCount[r] = Config[r].MaxRetries

C7_FailedIsTerminal ==
    [][\A r \in Recs : Status[r] = StatusFailed => Status'[r] = StatusFailed]_vars

\* caller t returns in this step from operation op
Returns(t, op) == tpc[t] # "returned" /\ tpc'[t] = "returned" /\ top'[t] = op

\* C8: Restart(name) on a registered, running process succeeds, and when it
\* returns name is registered with status running and the configuration the
\* process had before.
C8_RestartKeepsProcess ==
    [][\A t \in Threads :
          (Returns(t, "restart") /\ tpre'[t] # NoConfig) =>
              /\ tres'[t] = "ok"
              /\ processes'[tname'[t]] # 0
              /\ Status'[processes'[tname'[t]]] = StatusRunning
              /\ Config'[processes'[tname'[t]]] = tpre'[t]
      ]_vars

StopErrors == {"err_not_found", "err_not_running", "err_kill"}

\* the step leaves the registry and every process record as they are
SupFrame ==
    /\ processes' = processes
    /\ Status' = Status
    /\ Cmd' = Cmd
    /\ Config' = Config
    /\ RestartCount' = RestartCount

\* C9 as stated: Stop(name) returns an error and changes nothing when name
\* is not registered or its process is not running; otherwise it kills the
\* child, sets the record's status to stopped and removes name.
C9_StopTotal ==
    [][\A t \in Threads :
          Returns(t, "stop") =>
              IF tpre'[t] = NoConfig
              THEN tres'[t] \in StopErrors /\ SupFrame
              ELSE /\ tres'[t] = "ok"
                   /\ Status'[trec[t]] = StatusStopped
                   /\ processes'[tname'[t]] = 0
      ]_vars

\* Stop(name) is called in this step by caller t
StopCalled(t) == tpc[t] = "idle" /\ tpc'[t] # "idle" /\ top'[t] = "stop"

\* in the state Stop is called in, name is registered, running, and its
\* child can still be signalled
Killable(name) ==
    /\ processes[name] # 0
    /\ IsRunning(processes[name])
    /\ Cmd[processes[name]] # "reaped"

\* C9 amended: Stop(name) returns an error and changes nothing when name is
\* not registered, its process is not running, or the kill fails because the
\* child has already been reaped; otherwise it kills the child, sets the
\* record's status to stopped and removes name from the registry.
C9_StopOnKillSuccess ==
    [][\A t \in Threads :
          /\ (StopCalled(t) /\ ~Killable(tname'[t])) =>
                tpc'[t] = "returned" /\ tres'[t] \in StopErrors /\ SupFrame
          /\ (StopCalled(t) /\ Killable(tname'[t])) =>
                /\ tpc'[t] = "stop_finish"
                /\ Cmd'[processes[tname'[t]]] = "exited"
          /\ (Returns(t, "stop") /\ tpc[t] = "stop_finish") =>
                /\ tres'[t] = "ok"
                /\ Status'[trec[t]] = StatusStopped
                /\ processes'[tname'[t]] = 0
      ]_vars

\* Stop has killed a running child and removed its name
C9_Witness ==
    \E t \in Threads : /\ tpc[t] = "returned"
                       /\ top[t] = "stop"
                       /\ tres[t] = "ok"
                       /\ tpre[t] # NoConfig
                       /\ processes[tname[t]] = 0

\* the status edges of the lifecycle stopped -> starting -> running ->
\* (stopped | failed)
LifecycleEdges ==
    {<<StatusStopped, StatusStarting>>, <<StatusStarting, StatusRunning>>,
     <<StatusRunning, StatusStopped>>, <<StatusRunning, StatusFailed>>}

\* C10: every status change of a process record follows an edge of the
\* lifecycle, and an auto-restart (the monitor leaving its backoff with a new
\* child) is taken only while restart_count < max_retries was found.
C10_LifecycleEdges ==
    [][\A r \in Recs :
          /\ (Status[r] # "none" /\ Status'[r] # Status[r]) =>
                <<Status[r], Status'[r]>> \in LifecycleEdges
          /\ spawned'[r] # spawned[r] => RestartCount[r] <= Config[r].MaxRetries
      ]_vars

\* ------------------------------------------------------------------------
\* Archive extractor
\* ------------------------------------------------------------------------

\* A path is the sequence of its components; <<>> is the filesystem root.
\* the destDir argument of Extract
DestDir == <<"D">>

\* components an entry name is made of
NameComps == {"a", "b", ".."}

\* header.Name: 1..MaxNameLen components
EntryNames == UNION {[1..n -> NameComps] : n \in 1..MaxNameLen}

NoLink == [abs |-> FALSE, comps |-> <<>>]

\* header.Linkname of a symlink entry: /E, /E/f, .. and b
LinkNames ==
    {[abs |-> TRUE, comps |-> <<"E">>], [abs |-> TRUE, comps |-> <<"E", "f">>],
     [abs |-> FALSE, comps |-> <<"..">>], [abs |-> FALSE, comps |-> <<"b">>]}

\* tar headers: directory, regular file, symlink, any other type
Headers ==
    [Name : EntryNames, Typeflag : {"dir", "reg", "other"}, Linkname : {NoLink}]
    \cup [Name : EntryNames, Typeflag : {"symlink"}, Linkname : LinkNames]

DirNode == [kind |-> "dir", link |-> NoLink]
FileNode == [kind |-> "file", link |-> NoLink]
LinkNode(l) == [kind |-> "link", link |-> l]

\* the filesystem before Extract: the root and a directory /E beside destDir
FsInit == (<<>> :> DirNode) @@ (<<"E">> :> DirNode)

Parent(p) == IF p = <<>> THEN <<>> ELSE SubSeq(p, 1, Len(p) - 1)

RECURSIVE CleanFrom(_, _)
\* filepath.Clean on components: ".." removes the component before it
CleanFrom(done, rest) ==
    IF rest = <<>> THEN done
    ELSE IF Head(rest) = ".." THEN CleanFrom(Parent(done), Tail(rest))
    ELSE CleanFrom(Append(done, Head(rest)), Tail(rest))

\* filepath.Join(destDir, header.Name), line 56
JoinPath(dir, name) == CleanFrom(<<>>, dir \o name)

\* strings.HasPrefix(target, Clean(destDir)+separator), line 59
HasDestPrefix(target) ==
    /\ Len(target) > Len(DestDir)
    /\ SubSeq(target, 1, Len(DestDir)) = DestDir

ErrPath == <<"!">>

RECURSIVE Resolve(_, _, _, _)
\* the directory or file a path names once every symlink on it is followed,
\* starting in directory cur; ErrPath when a component is missing, is a
\* file, or the links nest too deep
Resolve(f, cur, rest, fuel) ==
    IF rest = <<>> THEN cur
    ELSE IF Head(rest) = ".." THEN Resolve(f, Parent(cur), Tail(rest), fuel)
    ELSE LET nxt == Append(cur, Head(rest)) IN
         IF nxt \notin DOMAIN f THEN ErrPath
         ELSE IF f[nxt].kind = "dir" THEN Resolve(f, nxt, Tail(rest), fuel)
         ELSE IF f[nxt].kind = "file"
              THEN (IF Tail(rest) = <<>> THEN nxt ELSE ErrPath)
         ELSE IF fuel = 0 THEN ErrPath
         ELSE Resolve(f, IF f[nxt].link.abs THEN <<>> ELSE cur,
                      f[nxt].link.comps \o Tail(rest), fuel - 1)

IsDirAt(f, p) == p \in DOMAIN f /\ f[p].kind = "dir"

RECURSIVE MkdirAllFrom(_, _, _, _)
\* os.MkdirAll: walk the components from directory cur, following symlinks
\* to directories and creating the directories that are missing; the result
\* holds the directory reached and the locations created
MkdirAllFrom(f, cur, rest, created) ==
    IF rest = <<>> THEN [ok |-> TRUE, fs |-> f, dir |-> cur, created |-> created]
    ELSE LET nxt == Append(cur, Head(rest)) IN
         IF nxt \notin DOMAIN f
         THEN MkdirAllFrom(f @@ (nxt :> DirNode), nxt, Tail(rest), created \cup {nxt})
         ELSE IF f[nxt].kind = "dir" THEN MkdirAllFrom(f, nxt, Tail(rest), created)
         ELSE IF f[nxt].kind = "file"
              THEN [ok |-> FALSE, fs |-> f, dir |-> cur, created |-> created]
         ELSE LET to == Resolve(f, IF f[nxt].link.abs THEN <<>> ELSE cur,
                                f[nxt].link.comps, MaxLinkDepth)
              IN IF IsDirAt(f, to)
                 THEN MkdirAllFrom(f, to, Tail(rest), created)
                 ELSE [ok |-> FALSE, fs |-> f, dir |-> cur, created |-> created]

MkdirAll(f, path) == MkdirAllFrom(f, <<>>, path, {})

RECURSIVE OpenAt(_, _, _, _)
\* os.OpenFile(O_CREATE|O_WRONLY|O_TRUNC) of name in directory dir: the
\* location of the file written, a symlink in the last place being followed;
\* ErrPath when that location is a directory or cannot be reached
OpenAt(f, dir, name, fuel) ==
    LET p == Append(dir, name) IN
    IF name = ".." THEN ErrPath
    ELSE IF p \notin DOMAIN f THEN p
    ELSE IF f[p].kind = "file" THEN p
    ELSE IF f[p].kind = "dir" THEN ErrPath
    ELSE IF fuel = 0 THEN ErrPath
    ELSE LET l == f[p].link
             d == Resolve(f, IF l.abs THEN <<>> ELSE dir,
                          SubSeq(l.comps, 1, Len(l.comps) - 1), fuel - 1)
         IN IF IsDirAt(f, d) THEN OpenAt(f, d, l.comps[Len(l.comps)], fuel - 1)
            ELSE ErrPath

\* a successful step of Extract: the filesystem after it and what it wrote
ExtOk(f, w) == [ok |-> TRUE, fs |-> f, wrote |-> w]
ExtErr(f, w) == [ok |-> FALSE, fs |-> f, wrote |-> w]

\* Extract, lines 64-68: a directory entry
ExtractDir(f, target) ==
    LET m == MkdirAll(f, target) IN
    IF m.ok THEN ExtOk(m.fs, m.created) ELSE ExtErr(m.fs, m.created)

\* Extractor.extractFile, lines 92-111
ExtractFile(f, target) ==
    LET m == MkdirAll(f, Parent(target))
        at == OpenAt(m.fs, m.dir, target[Len(target)], MaxLinkDepth)
    IN IF ~m.ok THEN ExtErr(m.fs, m.created)
       ELSE IF at = ErrPath THEN ExtErr(m.fs, m.created)
       ELSE ExtOk(IF at \in DOMAIN m.fs THEN m.fs ELSE m.fs @@ (at :> FileNode),
                  m.created \cup {at})

\* os.Remove, line 121: a file, a symlink or an empty directory goes away
RemoveAt(f, p) ==
    IF p \notin DOMAIN f THEN f
    ELSE IF f[p].kind = "dir"
            /\ \E q \in DOMAIN f : Len(q) > Len(p) /\ SubSeq(q, 1, Len(p)) = p
         THEN f
    ELSE [q \in DOMAIN f \ {p} |-> f[q]]

\* Extractor.extractSymlink, lines 114-129
ExtractSymlink(f, target, linkname) ==
    LET m == MkdirAll(f, Parent(target))
        p == Append(m.dir, target[Len(target)])
        g == RemoveAt(m.fs, p)
    IN IF ~m.ok THEN ExtErr(m.fs, m.created)
       ELSE IF p \in DOMAIN g THEN ExtErr(g, m.created)
       ELSE ExtOk(g @@ (p :> LinkNode(linkname)), m.created \cup {p})

\* Extract, lines 55-85: the loop body for one header
ExtractEntry(f, h) ==
    LET target == JoinPath(DestDir, h.Name) IN
    IF ~HasDestPrefix(target) THEN ExtErr(f, {})
    ELSE IF h.Typeflag = "dir" THEN ExtractDir(f, target)
    ELSE IF h.Typeflag = "reg" THEN ExtractFile(f, target)
    ELSE IF h.Typeflag = "symlink" THEN ExtractSymlink(f, target, h.Linkname)
    ELSE ExtOk(f, {})

ExtInit ==
    /\ fs = FsInit
    /\ written = {}
    /\ extPc = "open"
    /\ extCount = 0

\* Extract, lines 24-43: open the tarball and its gzip stream, then create
\* the destination directory
ExtOpen(ok) ==
    /\ extPc = "open"
    /\ IF ok
       THEN /\ fs' = MkdirAll(fs, DestDir).fs
            /\ extPc' = "entries"
       ELSE /\ fs' = fs
            /\ extPc' = "error"
    /\ UNCHANGED <<written, extCount>>

\* Extract, lines 47-85: tr.Next returns header h and the entry is extracted
ExtEntry(h) ==
    /\ extPc = "entries"
    /\ extCount < MaxEntries
    /\ LET r == ExtractEntry(fs, h) IN
        /\ fs' = r.fs
        /\ written' = written \cup r.wrote
        /\ extPc' = IF r.ok THEN "entries" ELSE "error"
    /\ extCount' = extCount + 1

\* Extract, lines 48-50 and 88: end of archive
ExtEOF ==
    /\ extPc = "entries"
    /\ extPc' = "done"
    /\ UNCHANGED <<fs, written, extCount>>

\* Extract, lines 51-53: a damaged header ends the extraction
ExtBadHeader ==
    /\ extPc = "entries"
    /\ extPc' = "error"
    /\ UNCHANGED <<fs, written, extCount>>

ExtNext ==
    \/ \E ok \in BOOLEAN : ExtOpen(ok)
    \/ \E h \in Headers : ExtEntry(h)
    \/ ExtEOF
    \/ ExtBadHeader

\* ------------------------------------------------------------------------
\* Runtime manager
\* ------------------------------------------------------------------------

RuntimePython == "python"
RuntimeNode == "node"
RuntimeBun == "bun"

\* spec.Type of the calls: two implemented types and one that is not
RuntimeTypes == {RuntimePython, RuntimeNode, RuntimeBun}

\* RuntimeType.IsImplemented
IsImplemented(rt) == rt \in {RuntimePython, RuntimeNode}

\* what a download can deliver: the published archive or a different one
Contents == {"good", "evil"}

\* Verifier.calculateSHA256: different contents have different digests
Sha256(c) == IF c = "good" THEN "h_good" ELSE "h_evil"

Hashes == {Sha256(c) : c \in Contents}

\* a line of the release body: the archive filename it contains (this
\* archive's, another one's or none) and the sha256:<64 hex> it contains
NoteLine == [file : {"none", "this", "other"}, sha : {"none"} \cup Hashes]

ReleaseNotes == UNION {[1..n -> NoteLine] : n \in 0..MaxNoteLines}

\* the lines searched for a hash, starting with the filename's line
HashWindow == 5

SetMin(S) == CHOOSE x \in S : \A y \in S : x <= y

\* Verifier.extractSHA256FromReleaseNotes: the first hash within HashWindow
\* lines from the first line that contains the filename; "none" is the error
ExtractSHA256FromReleaseNotes(body) ==
    LET named == {i \in 1..Len(body) : body[i].file = "this"}
        idx == IF named = {} THEN 0 ELSE SetMin(named)
        hits == {i \in 1..Len(body) :
                    /\ i >= idx
                    /\ i < idx + HashWindow
                    /\ body[i].sha # "none"}
    IN IF idx = 0 \/ hits = {} THEN "none" ELSE body[SetMin(hits)].sha

\* the upstream API's answer: a failure (transport error, status other than
\* 200, undecodable JSON) or a release with its body
ApiResponses ==
    {[ok |-> FALSE, body |-> <<>>]} \cup [ok : {TRUE}, body : ReleaseNotes]

\* Verifier.GetSHA256ForVersion; "none" is the error
GetSHA256ForVersion(api) ==
    IF ~api.ok THEN "none" ELSE ExtractSHA256FromReleaseNotes(api.body)

\* Downloader.Download and DownloadNodeJS: a cached archive is used as it
\* is; otherwise dl is "err" or the content received
Download(cached, dl) == IF cached # "none" THEN cached ELSE dl

\* Extractor.Extract seen from the manager: ex is "ok", "fail_open" (the
\* archive cannot be opened, nothing created) or "fail_entry" (an entry
\* fails after the destination was created)
ExtractedDir(ex) ==
    IF ex = "ok" THEN "complete" ELSE IF ex = "fail_entry" THEN "partial" ELSE "none"

NoLog == [type |-> "none", result |-> "none", expected |-> "none",
          actual |-> "none", extracted |-> FALSE]

RtLog(rt, res, expected, actual, extracted) ==
    [type |-> rt, result |-> res, expected |-> expected,
     actual |-> actual, extracted |-> extracted]

\* Manager.installPython, lines 105-119: is the archive refused
ChecksumRefused(rt, expected, tarball) ==
    rt = RuntimePython /\ expected # "none" /\ Sha256(tarball) # expected

RtInit ==
    /\ rtCache = [rt \in RuntimeTypes |-> "none"]
    /\ rtDir = [rt \in RuntimeTypes |-> "none"]
    /\ rtLog = NoLog

\* a manager that never finds the runtime directory
NeverInstalled(rt) == FALSE

\* a manager that takes only a completely extracted directory as installed
InstalledWhenComplete(rt) == rtDir[rt] = "complete"

\* Manager.InstallFromSpec, step 1: os.Stat of <home>/runtimes/<kind>-<version>
\* succeeds, whatever the directory holds
AlreadyInstalled(rt) == rtDir[rt] # "none"

\* Manager.InstallFromSpec with installPython and installNodeJS
InstallFromSpec(rt, dl, api, ex) ==
    LET tarball == Download(rtCache[rt], dl)
        expected == IF rt = RuntimePython THEN GetSHA256ForVersion(api) ELSE "none"
    IN
    IF AlreadyInstalled(rt)
    THEN /\ rtLog' = RtLog(rt, "ok_existing", "none", "none", FALSE)
         /\ UNCHANGED <<rtCache, rtDir>>
    ELSE IF ~IsImplemented(rt)
    THEN /\ rtLog' = RtLog(rt, "err_not_implemented", "none", "none", FALSE)
         /\ UNCHANGED <<rtCache, rtDir>>
    ELSE IF tarball = "err"
    THEN /\ rtLog' = RtLog(rt, "err_download", "none", "none", FALSE)
         /\ UNCHANGED <<rtCache, rtDir>>
    ELSE IF ChecksumRefused(rt, expected, tarball)
    THEN /\ rtCache' = [rtCache EXCEPT ![rt] = tarball]
         /\ rtLog' = RtLog(rt, "err_sha256", expected, Sha256(tarball), FALSE)
         /\ UNCHANGED rtDir
    ELSE /\ rtCache' = [rtCache EXCEPT ![rt] = tarball]
         /\ rtDir' = [rtDir EXCEPT ![rt] = ExtractedDir(ex)]
         /\ rtLog' = RtLog(rt, IF ex = "ok" THEN "ok" ELSE "err_extract",
                           expected, Sha256(tarball), ExtractedDir(ex) # "none")

\* Manager.Remove
Remove(rt) ==
    /\ rtDir[rt] # "none"
    /\ rtDir' = [rtDir EXCEPT ![rt] = "none"]
    /\ rtLog' = RtLog(rt, "removed", "none", "none", FALSE)
    /\ UNCHANGED rtCache

\* Manager.Remove of a runtime that is not installed
RemoveMissing(rt) ==
    /\ rtDir[rt] = "none"
    /\ rtLog' = RtLog(rt, "err_not_installed", "none", "none", FALSE)
    /\ UNCHANGED <<rtCache, rtDir>>

RtNext ==
    \/ \E rt \in RuntimeTypes, dl \in {"err"} \cup Contents,
          api \in ApiResponses,
          ex \in {"ok", "fail_open", "fail_entry"} : InstallFromSpec(rt, dl, api, ex)
    \/ \E rt \in RuntimeTypes : Remove(rt)
    \/ \E rt \in RuntimeTypes : RemoveMissing(rt)

\* ------------------------------------------------------------------------
\* Tool installer
\* ------------------------------------------------------------------------

ToolNames == {"t", "u"}

SourcePyPI == "pypi"
SourceGitHub == "github"
SourceGit == "git"
SourceLocal == "local"
SourceNPM == "npm"

\* InstallOptions: the two fields the pipeline's policy reads
InstallOptions == [SkipScan : BOOLEAN, RequireScan : BOOLEAN]

\* Tool: InstallPath is "venv" for <home>/tools/<name>/venv, "clone" for
\* the clone, "local" for the source directory, "" for the empty string
NoTool == [Ecosystem |-> "", InstallPath |-> "none", Source |-> ""]

Tool(eco, path, src) == [Ecosystem |-> eco, InstallPath |-> path, Source |-> src]

\* the source trees of the project: the manifest files present
Trees ==
    {{}, {"requirements.txt"}, {"setup.py"}, {"pyproject.toml"}, {"go.mod"},
     {"package.json"}, {"Gemfile"}, {"Cargo.toml"}, {"setup.py", "go.mod"}}

\* LocalInstaller.DetectEcosystem
DetectEcosystem(files) ==
    IF files \cap {"setup.py", "pyproject.toml", "requirements.txt"} # {} THEN "python"
    ELSE IF "go.mod" \in files THEN "go"
    ELSE IF "package.json" \in files THEN "node"
    ELSE IF "Gemfile" \in files THEN "ruby"
    ELSE IF "Cargo.toml" \in files THEN "rust"
    ELSE "unknown"

\* GitInstaller.DetectEcosystem
GitDetectEcosystem(files) ==
    IF files \cap {"setup.py", "pyproject.toml", "requirements.txt"} # {} THEN "python"
    ELSE IF "go.mod" \in files THEN "go"
    ELSE IF "package.json" \in files THEN "node"
    ELSE IF "Gemfile" \in files THEN "ruby"
    ELSE "unknown"

\* LocalInstaller.ValidateLocalPath: the directory exists and holds a
\* project file
ValidateLocalPath(exists, files) ==
    /\ exists
    /\ files \cap {"setup.py", "pyproject.toml", "package.json", "go.mod",
                   "Cargo.toml", "Gemfile"} # {}

\* parseDependencyFile: the dependency files it can parse
ParsedFiles == {"requirements.txt", "go.mod", "package.json"}

\* ScanLocalPath and ScanRepository, the depFiles loop: is there a
\* dependency file whose packages get scanned
HasDepFile(files) == files \cap ParsedFiles # {}

\* OSVSeverity.Score: does it start with CVSS:3, contain /C:H, contain /9.
Scores ==
    {[v3 |-> TRUE, ch |-> TRUE, nine |-> FALSE],
     [v3 |-> TRUE, ch |-> FALSE, nine |-> TRUE],
     [v3 |-> TRUE, ch |-> FALSE, nine |-> FALSE],
     [v3 |-> FALSE, ch |-> TRUE, nine |-> FALSE]}

Severities == [Type : {"CVSS_V3", "CVSS_V2"}, Score : Scores]

\* OSVVulnerability: its severity records
Vulnerabilities == UNION {[1..n -> Severities] : n \in 0..MaxSeverities}

\* the critical severity records of one vulnerability
RECURSIVE CriticalSeverities(_)
CriticalSeverities(sevs) ==
    IF sevs = <<>> THEN 0
    ELSE (IF /\ Head(sevs).Type = "CVSS_V3"
             /\ Head(sevs).Score.v3
             /\ (Head(sevs).Score.ch \/ Head(sevs).Score.nine)
          THEN 1 ELSE 0) + CriticalSeverities(Tail(sevs))

\* ScanResult.CriticalCount
RECURSIVE CriticalCount(_)
CriticalCount(vulns) ==
    IF vulns = <<>> THEN 0
    ELSE CriticalSeverities(Head(vulns)) + CriticalCount(Tail(vulns))

\* Scanner.ScanPackage for one package: an error (rejected input, transport
\* error, status other than 200, undecodable answer) or the vulnerabilities
QueryOutcomes ==
    {[err |-> TRUE, vulns |-> <<>>]}
    \cup [err : {FALSE}, vulns : UNION {[1..n -> Vulnerabilities] : n \in 0..MaxVulns}]

\* Scanner.ScanPackages: one result for each package
PkgResults == UNION {[1..n -> QueryOutcomes] : n \in 0..MaxPkgs}

\* the counts the installers add up over the results
RECURSIVE ScanCounts(_)
ScanCounts(results) ==
    IF results = <<>>
    THEN [Packages |-> 0, Failed |-> 0, VulnCount |-> 0, CriticalVulnCount |-> 0]
    ELSE LET r == Head(results)
             rest == ScanCounts(Tail(results))
         IN [Packages |-> rest.Packages + 1,
             Failed |-> rest.Failed + (IF r.err THEN 1 ELSE 0),
             VulnCount |-> rest.VulnCount + Len(r.vulns),
             CriticalVulnCount |-> rest.CriticalVulnCount + CriticalCount(r.vulns)]

\* a SecurityInfo with nothing counted
NoFindings == ScanCounts(<<>>)

\* Installer.scanPyPIPackage: the one package of a registry install
PyPIScans == {ScanCounts(<<q>>) : q \in QueryOutcomes}

\* ScanLocalPath and ScanRepository: the packages of a dependency file
TreeScans == {ScanCounts(r) : r \in PkgResults}

\* the policy test that lets one critical finding through
PolicyBlocksAboveOne(opts, sec) == opts.RequireScan /\ sec.CriticalVulnCount > 1

\* opts.RequireScan && secInfo.CriticalVulnCount > 0
PolicyBlocks(opts, sec) == opts.RequireScan /\ sec.CriticalVulnCount > 0

\* the rest of an install from create_env on: where it stops
Tails == {"mkdir_fail", "venv_fail", "pip_fail", "save_fail", "ok"}

NoClone == [exists |-> FALSE, sbom |-> FALSE]

InstLog(op, name, src, opts, sec, res) ==
    [op |-> op, name |-> name, src |-> src, skip |-> opts.SkipScan,
     require |-> opts.RequireScan, critical |-> sec.CriticalVulnCount,
     failed |-> sec.Failed, result |-> res]

NoOpts == [SkipScan |-> FALSE, RequireScan |-> FALSE]

InstInit ==
    /\ srcTree \in Trees
    /\ instMem = [n \in ToolNames |-> NoTool]
    /\ instDisk = [exists |-> FALSE, tools |-> [n \in ToolNames |-> NoTool]]
    /\ instEnv = [n \in ToolNames |-> "none"]
    /\ instClone = NoClone
    /\ instLocal = [sbom |-> FALSE]
    /\ instLog = InstLog("none", "", "", NoOpts, NoFindings, "none")
    /\ instOps = 0
    /\ instClean = TRUE

\* VenvManager.Create: an existing venv is returned as it is
VenvCreated(name, tail) ==
    instEnv[name] = "venv" \/ tail \notin {"mkdir_fail", "venv_fail"}

\* VenvManager.Create: <home>/tools/<name> after the call
EnvAfterCreate(name, tail) ==
    IF VenvCreated(name, tail) THEN "venv"
    ELSE IF tail = "venv_fail" /\ instEnv[name] = "none" THEN "dir"
    ELSE instEnv[name]

\* Installer.saveManifest
SaveManifest(tools, ok) ==
    IF ok THEN [exists |-> TRUE, tools |-> tools] ELSE instDisk

\* the manifest update that ends every install: the Tool is put into the
\* manifest in memory, then the manifest is saved
Persist(name, tool, op, src, opts, sec, tail) ==
    /\ instMem' = [instMem EXCEPT ![name] = tool]
    /\ instDisk' = SaveManifest([instMem EXCEPT ![name] = tool], tail = "ok")
    /\ instLog' = InstLog(op, name, src, opts, sec,
                          IF tail = "ok" THEN "ok" ELSE "err_save")

\* create_env and install_package of a python install; the result is
\* "go_on" when both succeeded
PythonSteps(name, tail) ==
    IF ~VenvCreated(name, tail) THEN "err_venv"
    ELSE IF tail = "pip_fail" THEN "err_pip"
    ELSE "go_on"

\* Installer.Install: DetectSource fails, or the source type has no installer
InstallUndetected(name, opts, src) ==
    /\ instLog' = InstLog("install", name, src, opts, NoFindings, "err_source")
    /\ UNCHANGED <<srcTree, instMem, instDisk, instEnv, instClone, instLocal>>

\* Installer.installFromPyPI
InstallFromPyPI(name, opts, scan, tail) ==
    LET sec == IF opts.SkipScan THEN NoFindings ELSE scan IN
    /\ UNCHANGED <<srcTree, instClone, instLocal>>
    /\ IF ~opts.SkipScan /\ PolicyBlocks(opts, sec)
       THEN /\ instLog' = InstLog("install", name, SourcePyPI, opts, sec, "err_blocked")
            /\ UNCHANGED <<instMem, instDisk, instEnv>>
       ELSE /\ instEnv' = [instEnv EXCEPT ![name] = EnvAfterCreate(name, tail)]
            /\ IF PythonSteps(name, tail) # "go_on"
               THEN /\ instLog' = InstLog("install", name, SourcePyPI, opts, sec,
                                          PythonSteps(name, tail))
                    /\ UNCHANGED <<instMem, instDisk>>
               ELSE Persist(name, Tool("python", "venv", SourcePyPI),
                            "install", SourcePyPI, opts, sec, tail)

\* GitInstaller.ScanRepository and LocalInstaller.ScanLocalPath: the counts
\* for a tree, and whether ophid-sbom.json is written into it
TreeScan(files, scan) == IF HasDepFile(files) THEN scan ELSE NoFindings

SbomWritten(files, scan, sbomOk) ==
    HasDepFile(files) /\ scan.Packages > 0 /\ sbomOk

\* Installer.installFromGit; clone is how CloneRepository ends
InstallFromGit(name, opts, src, clone, scan, sbomOk, tail) ==
    LET eco == GitDetectEcosystem(srcTree)
        sec == IF opts.SkipScan THEN NoFindings ELSE TreeScan(srcTree, scan)
        scanned == [exists |-> TRUE,
                    sbom |-> ~opts.SkipScan /\ SbomWritten(srcTree, scan, sbomOk)]
    IN
    /\ clone = "rm_fail" => instClone.exists
    /\ UNCHANGED <<srcTree, instLocal>>
    /\ IF clone = "rm_fail"
       THEN /\ instLog' = InstLog("install", name, src, opts, NoFindings, "err_clone")
            /\ UNCHANGED <<instMem, instDisk, instEnv, instClone>>
       ELSE IF clone = "clone_fail"
       THEN /\ instClone' = NoClone
            /\ instLog' = InstLog("install", name, src, opts, NoFindings, "err_clone")
            /\ UNCHANGED <<instMem, instDisk, instEnv>>
       ELSE IF clone = "post_fail"
       THEN /\ instClone' = [exists |-> TRUE, sbom |-> FALSE]
            /\ instLog' = InstLog("install", name, src, opts, NoFindings, "err_clone")
            /\ UNCHANGED <<instMem, instDisk, instEnv>>
       ELSE IF eco = "unknown"
       THEN /\ instClone' = [exists |-> TRUE, sbom |-> FALSE]
            /\ instLog' = InstLog("install", name, src, opts, NoFindings, "err_unknown")
            /\ UNCHANGED <<instMem, instDisk, instEnv>>
       ELSE IF ~opts.SkipScan /\ PolicyBlocks(opts, sec)
       THEN /\ instClone' = scanned
            /\ instLog' = InstLog("install", name, src, opts, sec, "err_blocked")
            /\ UNCHANGED <<instMem, instDisk, instEnv>>
       ELSE IF eco = "python"
       THEN /\ instClone' = scanned
            /\ instEnv' = [instEnv EXCEPT ![name] = EnvAfterCreate(name, tail)]
            /\ IF PythonSteps(name, tail) # "go_on"
               THEN /\ instLog' = InstLog("install", name, src, opts, sec,
                                          PythonSteps(name, tail))
                    /\ UNCHANGED <<instMem, instDisk>>
               ELSE Persist(name, Tool(eco, "venv", src), "install", src, opts, sec, tail)
       ELSE /\ instClone' = scanned
            /\ tail \in {"save_fail", "ok"}
            /\ UNCHANGED instEnv
            /\ Persist(name, Tool(eco, "clone", src), "install", src, opts, sec, tail)

\* Installer.installFromLocal. The secInfo and venvPath assigned inside the
\* scan and python blocks are new variables of those blocks: with scanning
\* enabled the outer secInfo is still nil when the Tool is built, and the
\* outer venvPath of a python install is still empty
InstallFromLocal(name, opts, pathOk, scan, sbomOk, tail) ==
    LET eco == DetectEcosystem(srcTree)
        sec == IF opts.SkipScan THEN NoFindings ELSE TreeScan(srcTree, scan)
        scanned == [sbom |-> instLocal.sbom
                             \/ (~opts.SkipScan /\ SbomWritten(srcTree, scan, sbomOk))]
    IN
    /\ UNCHANGED <<srcTree, instClone>>
    /\ IF ~ValidateLocalPath(pathOk, srcTree)
       THEN /\ instLog' = InstLog("install", name, SourceLocal, opts, NoFindings, "err_invalid")
            /\ UNCHANGED <<instMem, instDisk, instEnv, instLocal>>
       ELSE IF eco = "unknown"
       THEN /\ instLog' = InstLog("install", name, SourceLocal, opts, NoFindings, "err_unknown")
            /\ UNCHANGED <<instMem, instDisk, instEnv, instLocal>>
       ELSE IF ~opts.SkipScan /\ PolicyBlocks(opts, sec)
       THEN /\ instLocal' = scanned
            /\ instLog' = InstLog("install", name, SourceLocal, opts, sec, "err_blocked")
            /\ UNCHANGED <<instMem, instDisk, instEnv>>
       ELSE /\ instLocal' = scanned
            /\ instEnv' = IF eco = "python"
                          THEN [instEnv EXCEPT ![name] = EnvAfterCreate(name, tail)]
                          ELSE instEnv
            /\ IF eco = "python" /\ PythonSteps(name, tail) # "go_on"
               THEN /\ instLog' = InstLog("install", name, SourceLocal, opts, sec,
                                          PythonSteps(name, tail))
                    /\ UNCHANGED <<instMem, instDisk>>
               ELSE IF ~opts.SkipScan
               THEN /\ instLog' = InstLog("install", name, SourceLocal, opts, sec, "panic")
                    /\ UNCHANGED <<instMem, instDisk>>
               ELSE /\ eco # "python" => tail \in {"save_fail", "ok"}
                    /\ Persist(name,
                               Tool(eco, IF eco = "python" THEN "" ELSE "local", SourceLocal),
                               "install", SourceLocal, opts, sec, tail)

\* the scan results that can come back: none is consulted when scanning
\* is skipped, the pipeline stopped earlier or no dependency file is parsed
ScansFor(opts, reached, files) ==
    IF reached /\ ~opts.SkipScan /\ HasDepFile(files) THEN TreeScans ELSE {NoFindings}

\* security.WriteSBOM succeeds or fails, when there are packages to list
SbomOutcomes(scan) == IF scan.Packages > 0 THEN BOOLEAN ELSE {FALSE}

\* where the rest of the install can stop, when it is reached at all
TailsFor(opts, reached, scan, eco) ==
    IF ~reached \/ PolicyBlocks(opts, scan) THEN {"ok"}
    ELSE IF eco = "python" THEN Tails
    ELSE {"save_fail", "ok"}

\* Installer.Install
Install(name, opts) ==
    /\ instOps < MaxOps
    /\ instOps' = instOps + 1
    /\ \/ \E src \in {"", SourceNPM} : InstallUndetected(name, opts, src)
       \/ \E scan \in (IF opts.SkipScan THEN {NoFindings} ELSE PyPIScans) :
          \E tail \in TailsFor(opts, TRUE, scan, "python") :
               InstallFromPyPI(name, opts, scan, tail)
       \/ \E src \in {SourceGitHub, SourceGit},
             clone \in {"rm_fail", "clone_fail", "post_fail", "ok"} :
          LET reached == clone = "ok" /\ GitDetectEcosystem(srcTree) # "unknown" IN
          \E scan \in ScansFor(opts, reached, srcTree) :
          \E sbomOk \in SbomOutcomes(scan),
             tail \in TailsFor(opts, reached, scan, GitDetectEcosystem(srcTree)) :
               InstallFromGit(name, opts, src, clone, scan, sbomOk, tail)
       \/ \E pathOk \in BOOLEAN :
          LET reached == ValidateLocalPath(pathOk, srcTree) IN
          \E scan \in ScansFor(opts, reached, srcTree) :
          \E sbomOk \in SbomOutcomes(scan),
             tail \in TailsFor(opts, reached, scan, DetectEcosystem(srcTree)) :
               InstallFromLocal(name, opts, pathOk, scan, sbomOk, tail)
    /\ instClean' = (instClean /\ instLog'.result = "ok")

\* Installer.Uninstall
Uninstall(name, rmOk, saveOk) ==
    /\ instOps < MaxOps
    /\ instOps' = instOps + 1
    /\ UNCHANGED <<srcTree, instClone, instLocal>>
    /\ IF instMem[name] = NoTool
       THEN /\ instLog' = InstLog("uninstall", name, "", NoOpts, NoFindings, "err_not_installed")
            /\ UNCHANGED <<instMem, instDisk, instEnv>>
       ELSE IF ~rmOk
       THEN /\ instLog' = InstLog("uninstall", name, "", NoOpts, NoFindings, "err_remove")
            /\ UNCHANGED <<instMem, instDisk, instEnv>>
       ELSE /\ instEnv' = [instEnv EXCEPT ![name] = IF @ = "venv" THEN "dir" ELSE @]
            /\ instMem' = [instMem EXCEPT ![name] = NoTool]
            /\ instDisk' = SaveManifest([instMem EXCEPT ![name] = NoTool], saveOk)
            /\ instLog' = InstLog("uninstall", name, "", NoOpts, NoFindings,
                                  IF saveOk THEN "ok" ELSE "err_save")
    /\ instClean' = (instClean /\ instLog'.result = "ok")

\* how reading manifest.json can end: there is no file, the file is read
\* and parsed, os.ReadFile fails, json.Unmarshal fails
LoadOutcomes(disk) ==
    IF disk.exists THEN {"loaded", "read_fail", "parse_fail"} ELSE {"missing"}

\* Installer.loadManifest: the manifest in memory after it
LoadManifest(disk, load) ==
    IF load = "missing" THEN [n \in ToolNames |-> NoTool]
    ELSE IF load = "loaded" THEN disk.tools
    ELSE instMem

\* Installer.loadManifest: the error NewInstaller returns with
LoadResult(load) ==
    IF load = "read_fail" THEN "err_read"
    ELSE IF load = "parse_fail" THEN "err_parse"
    ELSE "ok"

\* NewInstaller with loadManifest: a new installer on the same home; when
\* loadManifest fails there is no new installer
NewInstaller(load) ==
    /\ instOps < MaxOps
    /\ instOps' = instOps + 1
    /\ load \in LoadOutcomes(instDisk)
    /\ instMem' = LoadManifest(instDisk, load)
    /\ instLog' = InstLog("new", "", load, NoOpts, NoFindings, LoadResult(load))
    /\ instClean' = FALSE
    /\ UNCHANGED <<srcTree, instDisk, instEnv, instClone, instLocal>>

InstNext ==
    \/ \E name \in ToolNames, opts \in InstallOptions : Install(name, opts)
    \/ \E name \in ToolNames, rmOk \in BOOLEAN, saveOk \in BOOLEAN :
          Uninstall(name, rmOk, saveOk)
    \/ \E load \in {"missing", "loaded", "read_fail", "parse_fail"} : NewInstaller(load)

\* ------------------------------------------------------------------------
\* Load balancer
\* ------------------------------------------------------------------------

\* LoadBalancer.backends, fixed at construction
Backends == 1..NumBackends

HealthStatusHealthy == "healthy"
HealthStatusUnhealthy == "unhealthy"
HealthStatusUnknown == "unknown"

HealthStatuses == {HealthStatusHealthy, HealthStatusUnhealthy, HealthStatusUnknown}

StrategyRoundRobin == "round-robin"
StrategyLeastConn == "least-conn"
StrategyIPHash == "ip-hash"
StrategyWeighted == "weighted"

Strategies == {StrategyRoundRobin, StrategyLeastConn, StrategyIPHash, StrategyWeighted}

\* the goroutines calling SelectBackend
LbThreads == {"r1", "r2"}

\* SelectBackend returned nil
NoBackend == 0

\* SelectBackend ended in a run-time panic (index out of range)
Panicked == -1

Int32Half == 2 ^ (CounterBits - 1)

\* two's-complement wrap-around of an int32
Int32(x) == ((x + Int32Half) % (2 * Int32Half)) - Int32Half

\* Go's % operator: the remainder has the sign of the dividend
GoRem(a, n) == IF a >= 0 THEN a % n ELSE 0 - ((0 - a) % n)

\* Backend.Weight as configured: backend 1 has none
Weight(b) == b - 1

\* weighted, lines 157-160: a weight of zero or less counts as one
EffectiveWeight(b) == IF Weight(b) <= 0 THEN 1 ELSE Weight(b)

\* LoadBalancer.roundRobin, line 104, idx being the counter after Add(1)
roundRobin(idx, backends) ==
    LET i == GoRem(idx, Len(backends)) IN
    IF i < 0 THEN Panicked ELSE backends[i + 1]

RECURSIVE TotalWeight(_)
TotalWeight(backends) ==
    IF backends = <<>> THEN 0
    ELSE EffectiveWeight(Head(backends)) + TotalWeight(Tail(backends))

RECURSIVE WeightedWalk(_, _, _)
\* weighted, lines 172-183
WeightedWalk(idx, backends, first) ==
    IF backends = <<>> THEN first
    ELSE IF idx - EffectiveWeight(Head(backends)) < 0 THEN Head(backends)
    ELSE WeightedWalk(idx - EffectiveWeight(Head(backends)), Tail(backends), first)

\* LoadBalancer.weighted, idx being the counter after Add(1)
weighted(idx, backends) ==
    WeightedWalk(GoRem(idx, TotalWeight(backends)), backends, backends[1])

\* LoadBalancer.leastConn: the first backend with the fewest connections
leastConn(conns, backends) ==
    LET i == CHOOSE i \in 1..Len(backends) :
                 /\ \A j \in 1..Len(backends) : conns[backends[i]] <= conns[backends[j]]
                 /\ \A j \in 1..(i - 1) : conns[backends[j]] > conns[backends[i]]
    IN backends[i]

\* LoadBalancer.ipHash, hash being the FNV-1a sum of the client address
ipHash(hash, backends) == backends[(hash % Len(backends)) + 1]

\* the connection counts leastConn reads; other threads change them
ConnReads(strategy) ==
    IF strategy = StrategyLeastConn THEN [Backends -> 0..1] ELSE {[b \in Backends |-> 0]}

\* the hash sums ipHash computes
HashSums(strategy) ==
    IF strategy = StrategyIPHash THEN 0..NumBackends ELSE {0}

\* the picks C13 counts: one more than two rounds
PickWindow == 2 * NumBackends + 1

\* NewLoadBalancer with any of the strategies
LbInit ==
    /\ lbStatus = [b \in Backends |-> HealthStatusHealthy]
    /\ lbCurrent = 0
    /\ lbStrategy \in Strategies
    /\ lbPc = [t \in LbThreads |-> "idle"]
    /\ lbScan = [t \in LbThreads |-> 1]
    /\ lbSnap = [t \in LbThreads |-> <<>>]
    /\ lbRet = [t \in LbThreads |-> NoBackend]
    /\ lbRetStatus = [t \in LbThreads |-> "none"]
    /\ lbPicks = <<>>

\* the load balancer at rest: round robin, no request
LbIdle == LbInit /\ lbStrategy = StrategyRoundRobin

\* LoadBalancer.healthyBackends, one turn of its loop: the thread reads the
\* status of the next backend and keeps the backend when it is healthy
healthyBackends(t) ==
    /\ lbPc[t] \in {"idle", "scan"}
    /\ LET b == IF lbPc[t] = "idle" THEN 1 ELSE lbScan[t]
           sofar == IF lbPc[t] = "idle" THEN <<>> ELSE lbSnap[t]
       IN /\ lbSnap' = [lbSnap EXCEPT ![t] =
                           IF lbStatus[b] = HealthStatusHealthy
                           THEN Append(sofar, b) ELSE sofar]
          /\ lbScan' = [lbScan EXCEPT ![t] = IF b = NumBackends THEN 1 ELSE b + 1]
          /\ lbPc' = [lbPc EXCEPT ![t] = IF b = NumBackends THEN "scanned" ELSE "scan"]
    /\ UNCHANGED <<lbStatus, lbCurrent, lbStrategy, lbRet, lbRetStatus, lbPicks>>

\* the window of picks after one more pick
PicksAfter(full, picked) ==
    IF ~full THEN <<>>
    ELSE IF Len(lbPicks) = PickWindow THEN Append(Tail(lbPicks), picked)
    ELSE Append(lbPicks, picked)

\* LoadBalancer.SelectBackend, lines 78-94: the strategy picks from the
\* healthy backends collected, and the backend is returned
SelectBackend(t, conns, hash) ==
    LET healthy == lbSnap[t]
        counts == lbStrategy \in {StrategyRoundRobin, StrategyWeighted} /\ healthy # <<>>
        idx == Int32(lbCurrent + 1)
        picked == IF healthy = <<>> THEN NoBackend
                  ELSE IF lbStrategy = StrategyRoundRobin THEN roundRobin(idx, healthy)
                  ELSE IF lbStrategy = StrategyLeastConn THEN leastConn(conns, healthy)
                  ELSE IF lbStrategy = StrategyIPHash THEN ipHash(hash, healthy)
                  ELSE weighted(idx, healthy)
    IN
    /\ lbPc[t] = "scanned"
    /\ lbCurrent' = IF counts THEN idx ELSE lbCurrent
    /\ lbRet' = [lbRet EXCEPT ![t] = picked]
    /\ lbRetStatus' = [lbRetStatus EXCEPT ![t] =
                          IF picked \in Backends THEN lbStatus[picked] ELSE "none"]
    /\ lbPicks' = IF counts
                  THEN PicksAfter(Len(healthy) = NumBackends, picked)
                  ELSE lbPicks
    /\ lbPc' = [lbPc EXCEPT ![t] = "returned"]
    /\ lbSnap' = [lbSnap EXCEPT ![t] = <<>>]
    /\ UNCHANGED <<lbStatus, lbStrategy, lbScan>>

\* the caller has taken the backend
LbDone(t) ==
    /\ lbPc[t] = "returned"
    /\ lbPc' = [lbPc EXCEPT ![t] = "idle"]
    /\ lbRet' = [lbRet EXCEPT ![t] = NoBackend]
    /\ lbRetStatus' = [lbRetStatus EXCEPT ![t] = "none"]
    /\ UNCHANGED <<lbStatus, lbCurrent, lbStrategy, lbScan, lbSnap, lbPicks>>

\* Health.SetStatus, called by any other thread
SetStatus(b, status) ==
    /\ lbStatus[b] # status
    /\ lbStatus' = [lbStatus EXCEPT ![b] = status]
    /\ lbPicks' = <<>>
    /\ UNCHANGED <<lbCurrent, lbStrategy, lbPc, lbScan, lbSnap, lbRet, lbRetStatus>>

LbNext ==
    \/ \E t \in LbThreads : healthyBackends(t)
    \/ \E t \in LbThreads, conns \in ConnReads(lbStrategy), hash \in HashSums(lbStrategy) :
          SelectBackend(t, conns, hash)
    \/ \E t \in LbThreads : LbDone(t)
    \/ \E b \in Backends, status \in HealthStatuses : SetStatus(b, status)

\* ------------------------------------------------------------------------
\* Router
\* ------------------------------------------------------------------------

\* strings are sequences of characters

\* strings.HasPrefix
HasPrefix(s, prefix) ==
    Len(prefix) <= Len(s) /\ SubSeq(s, 1, Len(prefix)) = prefix

\* strings.HasSuffix
HasSuffix(s, suffix) ==
    Len(suffix) <= Len(s) /\ SubSeq(s, Len(s) - Len(suffix) + 1, Len(s)) = suffix

\* strings.LastIndex for a one-character separator: a position from 1, or 0
\* for Go's -1
LastIndex(s, c) ==
    IF \E i \in 1..Len(s) : s[i] = c
    THEN CHOOSE i \in 1..Len(s) : s[i] = c /\ \A j \in (i + 1)..Len(s) : s[j] # c
    ELSE 0

\* strings.TrimPrefix
TrimPrefix(s, prefix) ==
    IF HasPrefix(s, prefix) THEN SubSeq(s, Len(prefix) + 1, Len(s)) ELSE s

\* strings.TrimSuffix
TrimSuffix(s, suffix) ==
    IF HasSuffix(s, suffix) THEN SubSeq(s, 1, Len(s) - Len(suffix)) ELSE s

\* matchHost
matchHost(pattern, reqHost) ==
    LET colonIdx == LastIndex(reqHost, ":")
        host == IF colonIdx # 0 THEN SubSeq(reqHost, 1, colonIdx - 1) ELSE reqHost
    IN IF pattern = <<"*">> \/ pattern = host THEN TRUE
       ELSE IF HasPrefix(pattern, <<"*", ".">>)
            THEN HasSuffix(host, TrimPrefix(pattern, <<"*">>))
       ELSE FALSE

\* matchPath
matchPath(pattern, path) ==
    IF pattern = path THEN TRUE
    ELSE IF HasSuffix(pattern, <<"/", "*">>)
         THEN HasPrefix(path, TrimSuffix(pattern, <<"/", "*">>))
    ELSE IF HasPrefix(pattern, <<"/", "*">>)
         THEN HasSuffix(path, TrimPrefix(pattern, <<"/", "*">>))
    ELSE FALSE

\* Router.matchRoute
matchRoute(route, req) ==
    IF route.Host # <<>> /\ ~matchHost(route.Host, req.Host) THEN FALSE
    ELSE IF route.Path # <<>> /\ ~matchPath(route.Path, req.Path) THEN FALSE
    ELSE IF route.Method # "" /\ route.Method # "*" /\ route.Method # req.Method THEN FALSE
    ELSE TRUE

RECURSIVE matchFrom(_, _, _)
\* a router that prefers the last matching route
matchLastFrom(routes, req, i) ==
    LET m == {j \in i..Len(routes) : matchRoute(routes[j], req)} IN
    IF m = {} THEN 0 ELSE CHOOSE j \in m : \A k \in m : k <= j

\* Router.match, the loop from route i on: the position of the route
\* returned, 0 for nil
matchFrom(routes, req, i) ==
    IF i > Len(routes) THEN 0
    ELSE IF matchRoute(routes[i], req) THEN i
    ELSE matchFrom(routes, req, i + 1)

\* the host patterns of the routes
HostPatterns == {<<"*">>, <<"*", ".", "x">>, <<"a", ".", "x">>}

\* the path patterns of the routes
PathPatterns == {<<>>, <<"/", "a", "/", "*">>, <<"/", "*", ".", "j">>}

\* the method patterns of the routes
MethodPatterns == {"*", "GET"}

\* the routes of a configuration; the last one has no host and no method
Routes ==
    [Host : HostPatterns, Path : PathPatterns, Method : MethodPatterns]
        \cup {[Host |-> <<>>, Path |-> <<"/", "a">>, Method |-> ""]}

\* http.Request: Host, URL.Path and Method
Requests ==
    [Host : {<<"a", ".", "x">>, <<"b", ".", "x", ":", "8">>, <<"x">>},
     Path : {<<"/", "a">>, <<"/", "a", "/", "b">>, <<"/", "a", "b">>, <<"/", "b", ".", "j">>},
     Method : {"GET", "POST"}]

NoRequest == [Host |-> <<>>, Path |-> <<>>, Method |-> "none"]

\* NewRouter
RtrInit ==
    /\ rtrRoutes = <<>>
    /\ rtrReq = NoRequest
    /\ rtrServed = 0

\* Router.AddRoute
AddRoute(route) ==
    /\ Len(rtrRoutes) < MaxRoutes
    /\ rtrRoutes' = Append(rtrRoutes, route)
    /\ rtrReq' = NoRequest
    /\ rtrServed' = 0

RECURSIVE RemoveFirst(_, _)
\* RemoveRoute's loop: the routes without the first one of the host
RemoveFirst(routes, host) ==
    IF routes = <<>> THEN <<>>
    ELSE IF Head(routes).Host = host THEN Tail(routes)
    ELSE <<Head(routes)>> \o RemoveFirst(Tail(routes), host)

\* Router.RemoveRoute
RemoveRoute(host) ==
    /\ rtrRoutes' = RemoveFirst(rtrRoutes, host)
    /\ rtrRoutes' # rtrRoutes
    /\ rtrReq' = NoRequest
    /\ rtrServed' = 0

\* Router.ServeHTTP: the handler of the matched route serves the request,
\* and http.NotFound does when match returns nil
RouterServeHTTP(req) ==
    /\ rtrReq' = req
    /\ rtrServed' = matchFrom(rtrRoutes, req, 1)
    /\ UNCHANGED rtrRoutes

RtrNext ==
    \/ \E route \in Routes : AddRoute(route)
    \/ \E host \in HostPatterns \cup {<<>>} : RemoveRoute(host)
    \/ \E req \in Requests : RouterServeHTTP(req)

\* ------------------------------------------------------------------------
\* Proxy server
\* ------------------------------------------------------------------------

\* a router is named by the number of the configuration it was built from:
\* 0 is NewServer's, n the n-th successful Reload's
Routers == 0..MaxReloads

\* the listener was not created
Off == -1

\* Start has launched the goroutine of the listener, which has not run yet
Pending == -2

\* the listener answers with the redirect to HTTPS
Redirecting == -3

\* the listener was shut down
Closed == -4

\* Config.TLS: disabled, enabled, enabled with AutoRedirect
TLSModes == {"off", "tls", "tls+redirect"}

\* the requests in flight
SrvRequests == {"q1", "q2"}

\* NewServer
SrvInit ==
    /\ srvTLS \in TLSModes
    /\ srvRouter = 0
    /\ srvHttp = Off
    /\ srvHttps = Off
    /\ srvLast = "none"
    /\ reqPc = [q \in SrvRequests |-> "idle"]
    /\ reqRouter = [q \in SrvRequests |-> Off]
    /\ reqExpect = [q \in SrvRequests |-> Off]

\* the server at rest: no TLS, not started
SrvIdle == SrvInit /\ srvTLS = "off"

\* Server.Start up to the goroutines it launches
ServerStart ==
    /\ srvHttp = Off /\ srvHttps = Off
    /\ srvHttp' = Pending
    /\ srvHttps' = IF srvTLS = "off" THEN Off ELSE Pending
    /\ UNCHANGED <<srvTLS, srvRouter, srvLast, reqPc, reqRouter, reqExpect>>

\* Server.startHTTP, or startHTTPRedirect under AutoRedirect: the
\* http.Server is built with the router of this instant as its Handler
startHTTP ==
    /\ srvHttp = Pending
    /\ srvHttp' = IF srvTLS = "tls+redirect" THEN Redirecting ELSE srvRouter
    /\ UNCHANGED <<srvTLS, srvRouter, srvHttps, srvLast, reqPc, reqRouter, reqExpect>>

\* Server.startHTTPS
startHTTPS ==
    /\ srvHttps = Pending
    /\ srvHttps' = srvRouter
    /\ UNCHANGED <<srvTLS, srvRouter, srvHttp, srvLast, reqPc, reqRouter, reqExpect>>

\* Server.Reload; urlsOk is whether every backend URL of the new
\* configuration parses
Reload(urlsOk) ==
    /\ srvRouter < MaxReloads
    /\ srvRouter' = IF urlsOk THEN srvRouter + 1 ELSE srvRouter
    /\ srvLast' = IF urlsOk THEN "reloaded" ELSE "invalid backend URL"
    /\ UNCHANGED <<srvTLS, srvHttp, srvHttps, reqPc, reqRouter, reqExpect>>

\* net/http hands a request arriving on a listener to the Handler of that
\* listener's http.Server
Arrive(q, handler) ==
    /\ reqPc[q] = "idle"
    /\ handler \in Routers \cup {Redirecting}
    /\ reqPc' = [reqPc EXCEPT ![q] = "serving"]
    /\ reqRouter' = [reqRouter EXCEPT ![q] = handler]
    /\ reqExpect' = [reqExpect EXCEPT ![q] = srvRouter]
    /\ UNCHANGED <<srvTLS, srvRouter, srvHttp, srvHttps, srvLast>>

\* the handler has written the response
Finish(q) ==
    /\ reqPc[q] = "serving"
    /\ reqPc' = [reqPc EXCEPT ![q] = "idle"]
    /\ reqRouter' = [reqRouter EXCEPT ![q] = Off]
    /\ reqExpect' = [reqExpect EXCEPT ![q] = Off]
    /\ UNCHANGED <<srvTLS, srvRouter, srvHttp, srvHttps, srvLast>>

\* Server.Shutdown: the listeners close, requests in flight finish
Shutdown ==
    /\ srvHttp \in Routers \cup {Redirecting} \/ srvHttps \in Routers
    /\ srvHttp' = IF srvHttp \in Routers \cup {Redirecting} THEN Closed ELSE srvHttp
    /\ srvHttps' = IF srvHttps \in Routers THEN Closed ELSE srvHttps
    /\ UNCHANGED <<srvTLS, srvRouter, srvLast, reqPc, reqRouter, reqExpect>>

SrvNext ==
    \/ ServerStart
    \/ startHTTP
    \/ startHTTPS
    \/ \E urlsOk \in BOOLEAN : Reload(urlsOk)
    \/ \E q \in SrvRequests, handler \in {srvHttp, srvHttps} : Arrive(q, handler)
    \/ \E q \in SrvRequests : Finish(q)
    \/ Shutdown

\* ------------------------------------------------------------------------
\* Reverse proxy
\* ------------------------------------------------------------------------

\* the route has Backends
RouteBackends == "backends"

\* the route has no Backends and a Target that parses
RouteTarget == "target"

\* the route has no Backends and a Target url.Parse rejects
RouteBadTarget == "bad target"

\* the route has no Backends and no Target
RouteEmpty == "empty"

RouteKinds == {RouteBackends, RouteTarget, RouteBadTarget, RouteEmpty}

\* the goroutines serving requests
PxThreads == {"p1", "p2"}

ThreadIndex(t) == IF t = "p1" THEN 1 ELSE 2

\* the backend NewHTTPProxy makes up for a Target, one per request
DefaultBackend == NumBackends + 1

\* a nil *Health
NilHealth == 0

\* the Health objects: each thread can allocate one per backend
HealthIds == 1..(2 * (NumBackends + 1))

\* &Health{Status: HealthStatusHealthy} allocated by thread t for backend b
NewHealth(t, b) == (ThreadIndex(t) - 1) * (NumBackends + 1) + b

\* the handler panicked: net/http closes the connection without a response
NoResponse == "no response"

StatusServiceUnavailable == "503 Service Unavailable"

StatusBadGateway == "502 Bad Gateway"

StatusOK == "200 OK"

\* NewServer: the Health of a configured backend is not part of the
\* configuration file and starts nil
PxInit ==
    /\ pxRoute \in RouteKinds
    /\ pxHealth = [b \in Backends |-> NilHealth]
    /\ pxStatus = [h \in HealthIds |-> HealthStatusHealthy]
    /\ pxConns = [h \in HealthIds |-> 0]
    /\ pxPc = [t \in PxThreads |-> "idle"]
    /\ pxIdx = [t \in PxThreads |-> 1]
    /\ pxBackend = [t \in PxThreads |-> NoBackend]
    /\ pxDefer = [t \in PxThreads |-> NilHealth]
    /\ pxResp = [t \in PxThreads |-> NoResponse]
    /\ pxNoHealthy = [t \in PxThreads |-> FALSE]
    /\ pxContacted = [t \in PxThreads |-> FALSE]
    /\ pxPicks = <<>>

\* the proxy at rest: a route with backends, no request
PxIdle == PxInit /\ pxRoute = RouteBackends

\* Router.ServeHTTP up to NewHTTPProxy: a handler is built for the request
NewHTTPProxy(t) ==
    /\ pxPc[t] = "idle"
    /\ pxPc' = [pxPc EXCEPT ![t] = IF pxRoute = RouteBackends THEN "check" ELSE "select"]
    /\ pxIdx' = [pxIdx EXCEPT ![t] = 1]
    /\ pxStatus' = IF pxRoute = RouteTarget
                   THEN [pxStatus EXCEPT ![NewHealth(t, DefaultBackend)] = HealthStatusHealthy]
                   ELSE pxStatus
    /\ pxConns' = IF pxRoute = RouteTarget
                  THEN [pxConns EXCEPT ![NewHealth(t, DefaultBackend)] = 0]
                  ELSE pxConns
    /\ UNCHANGED <<pxRoute, pxPicks, pxHealth, pxBackend, pxDefer, pxResp, pxNoHealthy, pxContacted>>

\* the position after the loop of NewLoadBalancer has dealt with backend b
AfterBackend(t, b) ==
    /\ pxIdx' = [pxIdx EXCEPT ![t] = IF b = NumBackends THEN 1 ELSE b + 1]
    /\ pxPc' = [pxPc EXCEPT ![t] = IF b = NumBackends THEN "select" ELSE "check"]

\* NewLoadBalancer, line 22: the read of backend.Health, without a lock
NewLoadBalancerCheck(t) ==
    /\ pxPc[t] = "check"
    /\ IF pxHealth[pxIdx[t]] = NilHealth
       THEN pxPc' = [pxPc EXCEPT ![t] = "init"] /\ UNCHANGED pxIdx
       ELSE AfterBackend(t, pxIdx[t])
    /\ UNCHANGED <<pxRoute, pxPicks, pxHealth, pxStatus, pxConns, pxBackend, pxDefer, pxResp,
                   pxNoHealthy, pxContacted>>

\* NewLoadBalancer, lines 23-25: the write of backend.Health, without a lock
NewLoadBalancerInit(t) ==
    /\ pxPc[t] = "init"
    /\ pxHealth' = [pxHealth EXCEPT ![pxIdx[t]] = NewHealth(t, pxIdx[t])]
    /\ pxStatus' = [pxStatus EXCEPT ![NewHealth(t, pxIdx[t])] = HealthStatusHealthy]
    /\ pxConns' = [pxConns EXCEPT ![NewHealth(t, pxIdx[t])] = 0]
    /\ AfterBackend(t, pxIdx[t])
    /\ pxPicks' = <<>>
    /\ UNCHANGED <<pxRoute, pxBackend, pxDefer, pxResp, pxNoHealthy, pxContacted>>

\* backend.Health as thread t reads it at this instant
HealthOf(t, b) == IF b = DefaultBackend THEN NewHealth(t, DefaultBackend) ELSE pxHealth[b]

\* LoadBalancer.healthyBackends on the backends of the route
HealthyOf(t) ==
    IF pxRoute = RouteTarget THEN <<DefaultBackend>>
    ELSE SelectSeq([b \in Backends |-> b],
                   LAMBDA b : pxStatus[pxHealth[b]] = HealthStatusHealthy)

\* the last NumBackends picks of a run of picks
LatestPicks(picks) ==
    IF Len(picks) > NumBackends THEN Tail(picks) ELSE picks

\* HTTPProxy.ServeHTTP, lines 68-72: SelectBackend on the load balancer of
\* the handler, which is nil without backends and target, on a handler
\* that is itself nil when the target did not parse;
\* NewHTTPProxy built that load balancer for this request, so its counter
\* is 0 when roundRobin adds 1 to it
ProxySelect(t) ==
    /\ pxPc[t] = "select"
    /\ IF pxRoute \in {RouteEmpty, RouteBadTarget}
       THEN /\ pxResp' = [pxResp EXCEPT ![t] = NoResponse]
            /\ pxNoHealthy' = [pxNoHealthy EXCEPT ![t] = TRUE]
            /\ pxPc' = [pxPc EXCEPT ![t] = "done"]
            /\ UNCHANGED pxBackend
       ELSE IF HealthyOf(t) = <<>>
       THEN /\ pxResp' = [pxResp EXCEPT ![t] = StatusServiceUnavailable]
            /\ pxNoHealthy' = [pxNoHealthy EXCEPT ![t] = TRUE]
            /\ pxPc' = [pxPc EXCEPT ![t] = "done"]
            /\ UNCHANGED pxBackend
       ELSE /\ pxBackend' = [pxBackend EXCEPT ![t] = roundRobin(Int32(0 + 1), HealthyOf(t))]
            /\ pxPc' = [pxPc EXCEPT ![t] = "selected"]
            /\ UNCHANGED <<pxResp, pxNoHealthy>>
    /\ pxPicks' = IF pxRoute = RouteBackends /\ Len(HealthyOf(t)) = NumBackends
                  THEN LatestPicks(Append(pxPicks, roundRobin(Int32(0 + 1), HealthyOf(t))))
                  ELSE <<>>
    /\ UNCHANGED <<pxRoute, pxHealth, pxStatus, pxConns, pxIdx, pxDefer, pxContacted>>

\* HTTPProxy.ServeHTTP, line 75
IncrementConnections(t) ==
    /\ pxPc[t] = "selected"
    /\ pxConns' = [pxConns EXCEPT ![HealthOf(t, pxBackend[t])] = @ + 1]
    /\ pxPc' = [pxPc EXCEPT ![t] = "counted"]
    /\ UNCHANGED <<pxRoute, pxPicks, pxHealth, pxStatus, pxIdx, pxBackend, pxDefer, pxResp,
                   pxNoHealthy, pxContacted>>

\* HTTPProxy.ServeHTTP, line 76: the defer statement evaluates
\* backend.Health, the receiver of the call it postpones
DeferDecrement(t) ==
    /\ pxPc[t] = "counted"
    /\ pxDefer' = [pxDefer EXCEPT ![t] = HealthOf(t, pxBackend[t])]
    /\ pxPc' = [pxPc EXCEPT ![t] = "proxying"]
    /\ UNCHANGED <<pxRoute, pxPicks, pxHealth, pxStatus, pxConns, pxIdx, pxBackend, pxResp,
                   pxNoHealthy, pxContacted>>

\* HTTPProxy.ServeHTTP, lines 79-86: the reverse proxy sends the request,
\* answers with the backend's response or with errorHandler's 502, and the
\* deferred DecrementConnections runs
ProxyComplete(t, ok) ==
    /\ pxPc[t] = "proxying"
    /\ pxContacted' = [pxContacted EXCEPT ![t] = TRUE]
    /\ pxResp' = [pxResp EXCEPT ![t] = IF ok THEN StatusOK ELSE StatusBadGateway]
    /\ pxConns' = [pxConns EXCEPT ![pxDefer[t]] = IF @ > 0 THEN @ - 1 ELSE @]
    /\ pxPc' = [pxPc EXCEPT ![t] = "done"]
    /\ UNCHANGED <<pxRoute, pxPicks, pxHealth, pxStatus, pxIdx, pxBackend, pxDefer, pxNoHealthy>>

\* the response is with the client
ProxyDone(t) ==
    /\ pxPc[t] = "done"
    /\ pxPc' = [pxPc EXCEPT ![t] = "idle"]
    /\ pxBackend' = [pxBackend EXCEPT ![t] = NoBackend]
    /\ pxDefer' = [pxDefer EXCEPT ![t] = NilHealth]
    /\ pxResp' = [pxResp EXCEPT ![t] = NoResponse]
    /\ pxNoHealthy' = [pxNoHealthy EXCEPT ![t] = FALSE]
    /\ pxContacted' = [pxContacted EXCEPT ![t] = FALSE]
    /\ UNCHANGED <<pxRoute, pxPicks, pxHealth, pxStatus, pxConns, pxIdx>>

\* Health.SetStatus on the Health of a backend of the route
BackendSetStatus(b, status) ==
    /\ pxHealth[b] # NilHealth
    /\ pxStatus[pxHealth[b]] # status
    /\ pxStatus' = [pxStatus EXCEPT ![pxHealth[b]] = status]
    /\ pxPicks' = <<>>
    /\ UNCHANGED <<pxRoute, pxHealth, pxConns, pxPc, pxIdx, pxBackend, pxDefer, pxResp,
                   pxNoHealthy, pxContacted>>

PxNext ==
    \/ \E t \in PxThreads : NewHTTPProxy(t)
    \/ \E t \in PxThreads : NewLoadBalancerCheck(t)
    \/ \E t \in PxThreads : NewLoadBalancerInit(t)
    \/ \E t \in PxThreads : ProxySelect(t)
    \/ \E t \in PxThreads : IncrementConnections(t)
    \/ \E t \in PxThreads : DeferDecrement(t)
    \/ \E t \in PxThreads, ok \in BOOLEAN : ProxyComplete(t, ok)
    \/ \E t \in PxThreads : ProxyDone(t)
    \/ \E b \in Backends, status \in {HealthStatusHealthy, HealthStatusUnhealthy} :
          BackendSetStatus(b, status)

\* ------------------------------------------------------------------------
\* Scanner: rate-limited queries
\* ------------------------------------------------------------------------

\* the goroutines calling ScanPackage on the scanner
ScanCallers == {"c1", "c2"}

\* RateLimiter.mu is not held
NoCaller == "none"

\* rate.NewLimiter(rate.Limit(rps), 1): the capacity of the bucket
Burst == 1

\* the last tick of the clock: time for all the queries and one tick more
MaxTime == (MaxQueries - 1) * RefillTicks + 1

\* the bucket when full
FullBucket == Burst * RefillTicks

\* rate.Limiter: the tokens at time now, refilled since rlLast up to the
\* capacity
TokensAt(now) ==
    IF rlTokens + (now - rlLast) > FullBucket THEN FullBucket
    ELSE rlTokens + (now - rlLast)

\* a limiter that lets every caller through at once
WaitForNothing(now) == 0

\* rate.Limiter.Wait: the wait a reservation made now has to sit out
WaitFor(now) ==
    IF TokensAt(now) - RefillTicks < 0 THEN RefillTicks - TokensAt(now) ELSE 0

\* NewScanner with NewRateLimiter: the bucket starts full
RlInit ==
    /\ rlNow = 0
    /\ rlTokens = FullBucket
    /\ rlLast = 0
    /\ rlMu = NoCaller
    /\ rlPc = [c \in ScanCallers |-> "idle"]
    /\ rlActAt = [c \in ScanCallers |-> 0]
    /\ rlStarted = 0
    /\ rlGrants = <<>>
    /\ rlSent = <<>>

\* the clock
Tick ==
    /\ rlNow < MaxTime
    /\ rlNow' = rlNow + 1
    /\ UNCHANGED <<rlTokens, rlLast, rlMu, rlPc, rlActAt, rlStarted, rlGrants, rlSent>>

\* Scanner.ScanPackage, lines 273-280: the name or the version is
\* rejected and nothing is sent
ScanInvalid(c) ==
    /\ rlPc[c] = "idle"
    /\ rlStarted < MaxQueries
    /\ rlStarted' = rlStarted + 1
    /\ rlPc' = [rlPc EXCEPT ![c] = "failed"]
    /\ UNCHANGED <<rlNow, rlTokens, rlLast, rlMu, rlActAt, rlGrants, rlSent>>

\* RateLimiter.Wait, lines 239-241: the caller takes the mutex and the
\* limiter reserves its token
WaitReserve(c) ==
    /\ rlPc[c] = "idle"
    /\ rlStarted < MaxQueries
    /\ rlMu = NoCaller
    /\ rlStarted' = rlStarted + 1
    /\ rlMu' = c
    /\ rlTokens' = TokensAt(rlNow) - RefillTicks
    /\ rlLast' = rlNow
    /\ rlActAt' = [rlActAt EXCEPT ![c] = rlNow + WaitFor(rlNow)]
    /\ rlPc' = [rlPc EXCEPT ![c] = "waiting"]
    /\ UNCHANGED <<rlNow, rlGrants, rlSent>>

\* RateLimiter.Wait returns nil: the instant of the token has come
WaitReturn(c) ==
    /\ rlPc[c] = "waiting"
    /\ rlNow >= rlActAt[c]
    /\ rlMu' = NoCaller
    /\ rlGrants' = Append(rlGrants, rlActAt[c])
    /\ rlPc' = [rlPc EXCEPT ![c] = "granted"]
    /\ UNCHANGED <<rlNow, rlTokens, rlLast, rlActAt, rlStarted, rlSent>>

\* RateLimiter.Wait returns an error: the context was cancelled, and the
\* limiter takes back a token whose instant has not passed
WaitCancelled(c) ==
    /\ rlPc[c] = "waiting"
    /\ rlMu' = NoCaller
    /\ IF rlActAt[c] < rlNow
       THEN UNCHANGED <<rlTokens, rlLast>>
       ELSE /\ rlTokens' = IF TokensAt(rlNow) + RefillTicks > FullBucket
                           THEN FullBucket ELSE TokensAt(rlNow) + RefillTicks
            /\ rlLast' = rlNow
    /\ rlPc' = [rlPc EXCEPT ![c] = "failed"]
    /\ UNCHANGED <<rlNow, rlActAt, rlStarted, rlGrants, rlSent>>

\* Scanner.ScanPackage, lines 289-313: the request is built and sent
SendQuery(c) ==
    /\ rlPc[c] = "granted"
    /\ rlSent' = Append(rlSent, rlNow)
    /\ rlPc' = [rlPc EXCEPT ![c] = "sent"]
    /\ UNCHANGED <<rlNow, rlTokens, rlLast, rlMu, rlActAt, rlStarted, rlGrants>>

\* Scanner.ScanPackage returns, with the response or with an error
ScanReturn(c) ==
    /\ rlPc[c] \in {"sent", "failed"}
    /\ rlPc' = [rlPc EXCEPT ![c] = "idle"]
    /\ UNCHANGED <<rlNow, rlTokens, rlLast, rlMu, rlActAt, rlStarted, rlGrants, rlSent>>

RlNext ==
    \/ Tick
    \/ \E c \in ScanCallers : ScanInvalid(c)
    \/ \E c \in ScanCallers : WaitReserve(c)
    \/ \E c \in ScanCallers : WaitReturn(c)
    \/ \E c \in ScanCallers : WaitCancelled(c)
    \/ \E c \in ScanCallers : SendQuery(c)
    \/ \E c \in ScanCallers : ScanReturn(c)

\* ------------------------------------------------------------------------
\* Source detector
\* ------------------------------------------------------------------------

\* A package specification is the sequence of its words (runs of letters
\* and digits) and punctuation characters.
Words == {"user", "repo", "github", "com", "git", "https", "http", "file",
          "v1", "main", "c", "home", "cwd"}

\* the tokens that are one byte long
OneByte(t) == t \notin Words \/ t = "c"

GitPlus == <<"git", "+">>
GitScheme == <<"git", ":", "/", "/">>
HttpsScheme == <<"https", ":", "/", "/">>
HttpScheme == <<"http", ":", "/", "/">>
FileScheme == <<"file", ":", "/", "/">>
HostName == <<"github", ".", "com">>
DotGit == <<".", "git">>

\* the working directory of the process and its parent
Cwd == <<"/", "home", "/", "cwd">>
CwdParent == <<"/", "home">>

\* strings.Index, counted from 1; 0 when sub does not occur
Index(s, sub) ==
    LET at == {i \in 1..(Len(s) - Len(sub) + 1) : SubSeq(s, i, i + Len(sub) - 1) = sub}
    IN IF at = {} THEN 0 ELSE CHOOSE i \in at : \A j \in at : i <= j

\* strings.Contains
Contains(s, sub) == Index(s, sub) # 0

\* strings.SplitN(s, sep, 2) for a one-character separator that occurs in s
Before(s, sep) == SubSeq(s, 1, Index(s, <<sep>>) - 1)

After(s, sep) == SubSeq(s, Index(s, <<sep>>) + 1, Len(s))

\* isAlphanumericOrDash
isAlphanumericOrDash(c) == c \in Words \/ c \in {"-", "_", "."}

\* SourceDetector.isLocalPath
isLocalPath(spec, exists) ==
    \/ HasPrefix(spec, <<".", "/">>) \/ HasPrefix(spec, <<".", ".", "/">>)
    \/ HasPrefix(spec, <<"/">>)
    \/ (Len(spec) > 1 /\ OneByte(spec[1]) /\ spec[2] = ":")
    \/ exists

\* SourceDetector.isGitHubURL
isGitHubURL(spec) == Contains(spec, HostName)

\* SourceDetector.isGitHubShorthand: strings.Split on "/" gives two parts,
\* both non-empty and made of letters, digits, "-", "_" and "."
isGitHubShorthand(spec) ==
    /\ Cardinality({i \in 1..Len(spec) : spec[i] = "/"}) = 1
    /\ Before(spec, "/") # <<>>
    /\ After(spec, "/") # <<>>
    /\ \A i \in 1..Len(spec) : spec[i] # "/" => isAlphanumericOrDash(spec[i])

\* filepath.Abs of a path without "." and ".." components after its start
Abs(p) ==
    IF HasPrefix(p, <<"/">>) THEN p
    ELSE IF HasPrefix(p, <<".", "/">>) THEN Cwd \o <<"/">> \o SubSeq(p, 3, Len(p))
    ELSE IF HasPrefix(p, <<".", ".", "/">>) THEN CwdParent \o <<"/">> \o SubSeq(p, 4, Len(p))
    ELSE Cwd \o <<"/">> \o p

\* url.Parse for a URL without query and user information: the fragment is
\* what follows "#"; with a scheme and "//" the path starts at the first "/"
\* after the host, without a scheme the path is all that is left
UrlParse(s) ==
    LET frag == IF Contains(s, <<"#">>) THEN After(s, "#") ELSE <<>>
        rest == IF Contains(s, <<"#">>) THEN Before(s, "#") ELSE s
        hasScheme == Len(rest) >= 4 /\ rest[1] \in Words
                     /\ SubSeq(rest, 2, 4) = <<":", "/", "/">>
        authority == SubSeq(rest, 5, Len(rest))
    IN [Path |-> IF ~hasScheme THEN rest
                 ELSE IF Contains(authority, <<"/">>)
                 THEN SubSeq(authority, Index(authority, <<"/">>), Len(authority))
                 ELSE <<>>,
        Fragment |-> frag,
        String |-> rest]

InstallSource(type, url, path, branch, commit) ==
    [Type |-> type, URL |-> url, Path |-> path, Branch |-> branch,
     Commit |-> commit, Err |-> "none"]

SourceError(err) ==
    [Type |-> "", URL |-> <<>>, Path |-> <<>>, Branch |-> <<>>, Commit |-> <<>>,
     Err |-> err]

\* SourceDetector.parseGitURL
parseGitURL(spec) ==
    LET gitURL == TrimPrefix(spec, GitPlus)
        url == IF Contains(gitURL, <<"@">>) THEN Before(gitURL, "@") ELSE gitURL
        branch == IF Contains(gitURL, <<"@">>) THEN After(gitURL, "@") ELSE <<>>
        parsedURL == UrlParse(url)
    IN InstallSource(SourceGit,
                     IF parsedURL.Fragment # <<>> THEN parsedURL.String ELSE url,
                     <<>>, branch, parsedURL.Fragment)

\* SourceDetector.parseGitHubURL
parseGitHubURL(spec) ==
    LET parsedURL == UrlParse(spec)
        path == TrimSuffix(TrimPrefix(parsedURL.Path, <<"/">>), DotGit)
    IN InstallSource(SourceGitHub, HttpsScheme \o HostName \o <<"/">> \o path \o DotGit,
                     <<>>, parsedURL.Fragment, <<>>)

\* SourceDetector.parseGitHubShorthand
parseGitHubShorthand(spec) ==
    LET name == IF Contains(spec, <<"@">>) THEN Before(spec, "@") ELSE spec
        ref == IF Contains(spec, <<"@">>) THEN After(spec, "@") ELSE <<>>
    IN InstallSource(SourceGitHub, HttpsScheme \o HostName \o <<"/">> \o name \o DotGit,
                     <<>>, ref, <<>>)

\* SourceDetector.parseHTTPURL
parseHTTPURL(spec) ==
    IF HasSuffix(spec, DotGit) /\ Contains(spec, HostName) THEN parseGitHubURL(spec)
    ELSE InstallSource(SourceGit, spec, <<>>, <<>>, <<>>)

\* a detector that looks for the repository host before the git prefixes
DetectSourceHostFirst(spec, optType, exists) ==
    IF optType # "" THEN InstallSource(optType, <<>>, <<>>, <<>>, <<>>)
    ELSE IF isLocalPath(spec, exists)
    THEN IF exists THEN InstallSource(SourceLocal, <<>>, Abs(spec), <<>>, <<>>)
         ELSE SourceError("local path does not exist")
    ELSE IF isGitHubURL(spec) THEN parseGitHubURL(spec)
    ELSE IF HasPrefix(spec, GitPlus) \/ HasPrefix(spec, GitScheme) THEN parseGitURL(spec)
    ELSE IF isGitHubShorthand(spec) THEN parseGitHubShorthand(spec)
    ELSE IF HasPrefix(spec, HttpScheme) \/ HasPrefix(spec, HttpsScheme)
    THEN parseHTTPURL(spec)
    ELSE IF HasPrefix(spec, FileScheme)
    THEN InstallSource(SourceLocal, <<>>, Abs(TrimPrefix(spec, FileScheme)), <<>>, <<>>)
    ELSE InstallSource(SourcePyPI, spec, <<>>, <<>>, <<>>)

\* SourceDetector.DetectSource
DetectSource(spec, optType, exists) ==
    IF optType # "" THEN InstallSource(optType, <<>>, <<>>, <<>>, <<>>)
    ELSE IF isLocalPath(spec, exists)
    THEN IF exists THEN InstallSource(SourceLocal, <<>>, Abs(spec), <<>>, <<>>)
         ELSE SourceError("local path does not exist")
    ELSE IF HasPrefix(spec, GitPlus) \/ HasPrefix(spec, GitScheme) THEN parseGitURL(spec)
    ELSE IF isGitHubURL(spec) THEN parseGitHubURL(spec)
    ELSE IF isGitHubShorthand(spec) THEN parseGitHubShorthand(spec)
    ELSE IF HasPrefix(spec, HttpScheme) \/ HasPrefix(spec, HttpsScheme)
    THEN parseHTTPURL(spec)
    ELSE IF HasPrefix(spec, FileScheme)
    THEN InstallSource(SourceLocal, <<>>, Abs(TrimPrefix(spec, FileScheme)), <<>>, <<>>)
    ELSE InstallSource(SourcePyPI, spec, <<>>, <<>>, <<>>)

\* the specifications tried: a start, one to MaxSegs parts joined by "/",
\* an end
SpecPrefixes ==
    {<<>>, <<".", "/">>, <<".", ".", "/">>, <<"/">>, <<"c", ":">>, GitPlus, GitScheme,
     GitPlus \o HttpsScheme, HttpsScheme, HttpScheme, FileScheme}

SpecSegments == {<<"user">>, <<"repo">>, HostName, <<"user", "!", "repo">>}

SpecSuffixes == {<<>>, DotGit, <<"@", "v1">>, <<"#", "main">>}

RECURSIVE JoinSegs(_)
JoinSegs(segs) ==
    IF Len(segs) = 1 THEN Head(segs)
    ELSE Head(segs) \o <<"/">> \o JoinSegs(Tail(segs))

SpecBodies == {JoinSegs(f) : f \in UNION {[1..n -> SpecSegments] : n \in 1..MaxSegs}}

SpecStrings == {p \o b \o s : p \in SpecPrefixes, b \in SpecBodies, s \in SpecSuffixes}

NotDetected == SourceError("not called")

SdInit ==
    /\ sdSpec \in SpecStrings
    /\ sdOpt \in {"", SourceNPM}
    /\ sdExists \in BOOLEAN
    /\ sdOut = NotDetected

SdIdle ==
    /\ sdSpec = <<"user">>
    /\ sdOpt = ""
    /\ sdExists = FALSE
    /\ sdOut = NotDetected

\* Installer.Install calls DetectSource on the name it was given
Detect ==
    /\ sdOut = NotDetected
    /\ sdOut' = DetectSource(sdSpec, sdOpt, sdExists)
    /\ UNCHANGED <<sdSpec, sdOpt, sdExists>>

SdNext == Detect

\* ------------------------------------------------------------------------
\* Scanner: one vulnerability query
\* ------------------------------------------------------------------------

\* validatePackageName: the longest name in bytes
NameLimit == 256

\* validateVersion: the longest version in bytes
VersionLimit == 64

\* who builds the Package that is queried: the registry install and the
\* parsers of the dependency files
QueryCallers == {"scanPyPIPackage", "requirements.txt", "package.json", "go.mod"}

\* the Ecosystem each of them writes into the Package
EcosystemOf(caller) ==
    CASE caller = "scanPyPIPackage" -> "pypi"
      [] caller = "requirements.txt" -> "PyPI"
      [] caller = "package.json" -> "npm"
      [] caller = "go.mod" -> "Go"

\* buildPURL: the purl type for an ecosystem label
buildPURL(ecosystem) ==
    CASE ecosystem = "PyPI" -> "pkg:pypi"
      [] ecosystem = "npm" -> "pkg:npm"
      [] ecosystem = "Go" -> "pkg:golang"
      [] OTHER -> "pkg:generic"

\* a character is one byte long, except "U2", a character of two bytes
ByteLen(s) == Len(s) + Cardinality({i \in 1..Len(s) : s[i] = "U2"})

\* n times the character c
Repeat(c, n) == [i \in 1..n |-> c]

\* a validatePackageName that lets "/" through
validatePackageNameSlash(name) ==
    IF name = <<>> THEN "package name cannot be empty"
    ELSE IF Contains(name, <<".", ".">>) THEN "package name contains invalid characters"
    ELSE IF ByteLen(name) > NameLimit THEN "package name too long"
    ELSE "nil"

\* validatePackageName
validatePackageName(name) ==
    IF name = <<>> THEN "package name cannot be empty"
    ELSE IF Contains(name, <<".", ".">>) \/ Contains(name, <<"/">>)
    THEN "package name contains invalid characters"
    ELSE IF ByteLen(name) > NameLimit THEN "package name too long"
    ELSE "nil"

\* validateVersion
validateVersion(version) ==
    IF version = <<>> THEN "version cannot be empty"
    ELSE IF Contains(version, <<".", ".">>) THEN "version contains invalid characters"
    ELSE IF ByteLen(version) > VersionLimit THEN "version too long"
    ELSE "nil"

\* the names and versions queried
QueryNames ==
    {<<>>, <<"a">>, <<"a", ".", "b">>, <<".", ".">>, <<"a", ".", ".", "b">>,
     <<"a", "/", "b">>, <<"github", ".", "com", "/", "user", "/", "repo">>,
     Repeat("a", NameLimit), Repeat("a", NameLimit + 1),
     Repeat("U2", NameLimit \div 2), Repeat("U2", NameLimit \div 2 + 1)}

QueryVersions ==
    {<<>>, <<"1">>, <<"1", ".", "0">>, <<"1", ".", ".", "0">>, <<"1", "/", "0">>,
     Repeat("1", VersionLimit), Repeat("1", VersionLimit + 1)}

QryInit ==
    /\ qCaller \in QueryCallers
    /\ qName \in QueryNames
    /\ qVersion \in QueryVersions
    /\ qPc = "called"
    /\ qTokens = 0
    /\ qSent = <<>>

QryIdle ==
    /\ qCaller = "scanPyPIPackage"
    /\ qName = <<"a">>
    /\ qVersion = <<"1">>
    /\ qPc = "called"
    /\ qTokens = 0
    /\ qSent = <<>>

\* ScanPackage, lines 275-280: the input validation
Validate ==
    /\ qPc = "called"
    /\ qPc' = IF validatePackageName(qName) # "nil" THEN "invalid package name"
              ELSE IF validateVersion(qVersion) # "nil" THEN "invalid version"
              ELSE "validated"
    /\ UNCHANGED <<qCaller, qName, qVersion, qTokens, qSent>>

\* ScanPackage, lines 283-285: rateLimiter.Wait hands out a token, or the
\* context ends while it waits
RateWait(ok) ==
    /\ qPc = "validated"
    /\ qPc' = IF ok THEN "token" ELSE "rate limiter error"
    /\ qTokens' = IF ok THEN qTokens + 1 ELSE qTokens
    /\ UNCHANGED <<qCaller, qName, qVersion, qSent>>

\* ScanPackage, lines 287-314: the request is built and client.Do sends it
Do(ok) ==
    /\ qPc = "token"
    /\ qSent' = Append(qSent, EcosystemOf(qCaller))
    /\ qPc' = IF ok THEN "answered" ELSE "request failed"
    /\ UNCHANGED <<qCaller, qName, qVersion, qTokens>>

\* ScanPackage, lines 318-331: the status and the body of the answer
Answer(status, decoded) ==
    /\ qPc = "answered"
    /\ qPc' = IF status # "200 OK" THEN "OSV API returned status"
              ELSE IF ~decoded THEN "failed to decode response"
              ELSE "ok"
    /\ UNCHANGED <<qCaller, qName, qVersion, qTokens, qSent>>

QryNext ==
    \/ Validate
    \/ \E ok \in BOOLEAN : RateWait(ok)
    \/ \E ok \in BOOLEAN : Do(ok)
    \/ \E status \in {"200 OK", "500 Internal Server Error"}, decoded \in BOOLEAN :
          Answer(status, decoded)

\* ------------------------------------------------------------------------
\* Downloader: installs that share the download cache
\* ------------------------------------------------------------------------

\* two installs of the same runtime, in one process or in two
Installs == {"i1", "i2"}

OtherInstall(t) == CHOOSE u \in Installs : u # t

DlInit ==
    /\ dlFile = "absent"
    /\ dlPc = [t \in Installs |-> "idle"]
    /\ dlHoles = {}
    /\ dlGot = [t \in Installs |-> "none"]
    /\ dlCalls = [t \in Installs |-> 0]

\* Download, lines 41-63: the cache directory is made and os.Stat looks for
\* the archive; a file that is there is returned as the cached download
StatCache(t) ==
    /\ dlPc[t] = "idle"
    /\ dlCalls[t] < MaxCalls
    /\ dlCalls' = [dlCalls EXCEPT ![t] = @ + 1]
    /\ IF dlFile # "absent"
       THEN /\ dlPc' = [dlPc EXCEPT ![t] = "cached"]
            /\ dlGot' = [dlGot EXCEPT ![t] = dlFile]
       ELSE /\ dlPc' = [dlPc EXCEPT ![t] = "requesting"]
            /\ dlGot' = [dlGot EXCEPT ![t] = "none"]
    /\ UNCHANGED <<dlFile, dlHoles>>

\* Download, lines 68-81: the request fails or the status is not 200
RequestFails(t, how) ==
    /\ dlPc[t] = "requesting"
    /\ dlPc' = [dlPc EXCEPT ![t] = how]
    /\ UNCHANGED <<dlFile, dlHoles, dlGot, dlCalls>>

\* Download, lines 84-88: os.Create opens the final name and truncates it;
\* an install that is copying into the file loses what it wrote so far
Create(t, ok) ==
    /\ dlPc[t] = "requesting"
    /\ IF ok
       THEN /\ dlPc' = [dlPc EXCEPT ![t] = "copying"]
            /\ dlFile' = "partial"
            /\ dlHoles' = IF dlPc[OtherInstall(t)] = "copying"
                          THEN dlHoles \cup {OtherInstall(t)}
                          ELSE dlHoles
       ELSE /\ dlPc' = [dlPc EXCEPT ![t] = "failed to create file"]
            /\ UNCHANGED <<dlFile, dlHoles>>
    /\ UNCHANGED <<dlGot, dlCalls>>

\* Download, lines 97-104: io.Copy ends without error and the path is
\* returned; the file is whole unless it was truncated under this install
\* by one that is still copying, or was removed
CopyDone(t) ==
    /\ dlPc[t] = "copying"
    /\ dlFile' = IF dlFile = "absent" THEN "absent"
                 ELSE IF t \in dlHoles /\ dlPc[OtherInstall(t)] = "copying" THEN "partial"
                 ELSE "complete"
    /\ dlPc' = [dlPc EXCEPT ![t] = "downloaded"]
    /\ dlGot' = [dlGot EXCEPT ![t] = dlFile']
    /\ dlHoles' = dlHoles \ {t}
    /\ UNCHANGED dlCalls

\* Download, lines 98-101: io.Copy fails and os.Remove is called on the
\* final name, its result ignored
CopyFails(t, removed) ==
    /\ dlPc[t] = "copying"
    /\ dlFile' = IF removed THEN "absent" ELSE dlFile
    /\ dlPc' = [dlPc EXCEPT ![t] = "download failed"]
    /\ dlHoles' = dlHoles \ {t}
    /\ UNCHANGED <<dlGot, dlCalls>>

\* the install is over; the next one of this caller starts
DlReturn(t) ==
    /\ dlPc[t] \notin {"idle", "requesting", "copying"}
    /\ dlCalls[t] < MaxCalls
    /\ dlPc' = [dlPc EXCEPT ![t] = "idle"]
    /\ UNCHANGED <<dlFile, dlHoles, dlGot, dlCalls>>

DlNext ==
    \/ \E t \in Installs : StatCache(t)
    \/ \E t \in Installs, how \in {"failed to download", "download failed with status"} :
          RequestFails(t, how)
    \/ \E t \in Installs, ok \in BOOLEAN : Create(t, ok)
    \/ \E t \in Installs : CopyDone(t)
    \/ \E t \in Installs, removed \in BOOLEAN : CopyFails(t, removed)
    \/ \E t \in Installs : DlReturn(t)

\* ------------------------------------------------------------------------
\* Router: the middleware of a route
\* ------------------------------------------------------------------------

\* MiddlewareConfig.Type
MiddlewareTypes == {"ratelimit", "cors", "auth"}

MiddlewareLists == UNION {[1..n -> MiddlewareTypes] : n \in 0..MaxMiddleware}

ClientIPs == {"10.0.0.1", "10.0.0.2"}

\* RateLimiter.Middleware: the limiter of the client refuses, or the next
\* handler answers
RateLimiterMiddleware(allow, next) ==
    IF ~allow THEN "429 Too Many Requests" ELSE next

\* Router.ServeHTTP, lines 107-111: the loop over route.MiddlewareList has
\* no statement in its body, the handler stays the one buildHandler made
ApplyMiddleware(list, handler) == handler

\* the middleware that ran: none is built from the configuration
AppliedMiddleware(list) == <<>>

MwInit ==
    /\ mwList \in MiddlewareLists
    /\ mwMatched \in BOOLEAN
    /\ mwClient \in ClientIPs
    /\ mwAllow \in [ClientIPs -> BOOLEAN]
    /\ mwApplied = <<>>
    /\ mwOut = "none"

MwIdle ==
    /\ mwList = <<>>
    /\ mwMatched = TRUE
    /\ mwClient = "10.0.0.1"
    /\ mwAllow = [c \in ClientIPs |-> TRUE]
    /\ mwApplied = <<>>
    /\ mwOut = "none"

\* Router.ServeHTTP: match, buildHandler, the middleware loop, and the
\* handler, which selects a backend and proxies the request
MwServeHTTP ==
    /\ mwOut = "none"
    /\ IF ~mwMatched
       THEN /\ mwOut' = "404 Not Found"
            /\ mwApplied' = <<>>
       ELSE /\ mwOut' = ApplyMiddleware(mwList, "backend selected")
            /\ mwApplied' = AppliedMiddleware(mwList)
    /\ UNCHANGED <<mwList, mwMatched, mwClient, mwAllow>>

MwNext == MwServeHTTP

\* ------------------------------------------------------------------------
\* Scanner: the critical count of a scan result
\* ------------------------------------------------------------------------

\* OSVVulnerability.Severity: the severity records of one vulnerability
SeverityLists == UNION {[1..n -> Severities] : n \in 0..MaxSevRecords}

\* ScanResult.Vulnerabilities
ResultVulns == UNION {[1..n -> SeverityLists] : n \in 0..MaxResultVulns}

CcInit ==
    /\ ccVulns \in ResultVulns
    /\ ccDone = FALSE
    /\ ccCount = 0

CcIdle ==
    /\ ccVulns = <<>>
    /\ ccDone = FALSE
    /\ ccCount = 0

\* ScanResult.CriticalCount is called on the result
CountCritical ==
    /\ ~ccDone
    /\ ccDone' = TRUE
    /\ ccCount' = CriticalCount(ccVulns)
    /\ UNCHANGED ccVulns

CcNext == CountCritical

\* ------------------------------------------------------------------------
\* Supervisor: StopAll over several processes
\* ------------------------------------------------------------------------

\* the names the caller manages; the processes here run without auto_restart
SaNames == {"a", "b", "c"}

\* the orders in which a range over the processes map can yield the names in S
IterationOrders(S) ==
    {s \in [1..Cardinality(S) -> S] : \A i, j \in 1..Cardinality(S) : i # j => s[i] # s[j]}

SaInit ==
    /\ saProcs = [n \in SaNames |-> "absent"]
    /\ saPc = "idle"
    /\ saNames = <<>>
    /\ saRet = "none"

\* Manager.Start, lines 26-56: a name that is not running gets a new running
\* record; a running name is rejected.
SaStart(n) ==
    /\ saPc = "idle"
    /\ saProcs[n] # StatusRunning
    /\ saProcs' = [saProcs EXCEPT ![n] = StatusRunning]
    /\ UNCHANGED <<saPc, saNames, saRet>>

\* monitorProcess, lines 177-207, auto_restart off: the child exits and the
\* record, still registered, becomes stopped, or failed when Wait reports an
\* error.
SaChildExit(n, err) ==
    /\ saProcs[n] = StatusRunning
    /\ saProcs' = [saProcs EXCEPT ![n] = IF err THEN StatusFailed ELSE StatusStopped]
    /\ UNCHANGED <<saPc, saNames, saRet>>

\* Manager.StopAll, lines 125-130: collect the registered names under the
\* read lock, in the order the map yields them.
SaCollect(order) ==
    /\ saPc = "idle"
    /\ saNames' = order
    /\ saPc' = "loop"
    /\ UNCHANGED <<saProcs, saRet>>

\* Manager.Stop, lines 59-83, as StopAll sees it: an error for a name that is
\* not registered or not running, else kill, mark stopped and delete.
SaStopResult(n) ==
    IF saProcs[n] = "absent" THEN "err_not_found"
    ELSE IF saProcs[n] # StatusRunning THEN "err_not_running"
    ELSE "ok"

\* Manager.StopAll, lines 132-138: Stop the next collected name and return
\* its error at once; return nil when all names are done.
SaStopNext ==
    /\ saPc = "loop"
    /\ IF saNames = <<>>
       THEN /\ saPc' = "returned"
            /\ saRet' = "ok"
            /\ UNCHANGED <<saProcs, saNames>>
       ELSE IF SaStopResult(Head(saNames)) # "ok"
       THEN /\ saPc' = "returned"
            /\ saRet' = SaStopResult(Head(saNames))
            /\ UNCHANGED <<saProcs, saNames>>
       ELSE /\ saProcs' = [saProcs EXCEPT ![Head(saNames)] = "absent"]
            /\ saNames' = Tail(saNames)
            /\ UNCHANGED <<saPc, saRet>>

\* the caller has taken StopAll's result
SaDone ==
    /\ saPc = "returned"
    /\ saPc' = "idle"
    /\ saNames' = <<>>
    /\ saRet' = "none"
    /\ UNCHANGED saProcs

SaNext ==
    \/ \E n \in SaNames : SaStart(n)
    \/ \E n \in SaNames, err \in BOOLEAN : SaChildExit(n, err)
    \/ \E order \in IterationOrders({n \in SaNames : saProcs[n] # "absent"}) : SaCollect(order)
    \/ SaStopNext
    \/ SaDone

\* ------------------------------------------------------------------------
\* Dependency parsers feeding the scanner
\* ------------------------------------------------------------------------

ManifestFiles == {"requirements.txt", "go.mod", "package.json"}

\* a parser that appended nothing for the entry
NoPackage == [Name |-> <<>>, Version |-> <<>>, Ecosystem |-> ""]

NoDep == [name |-> <<>>, version |-> <<>>]

\* the lines of a requirements.txt: words, version numbers and punctuation
RequirementTokens == {"a", "1", ".", "/", "#", "==", ">", "[", " "}

RequirementLines == UNION {[1..n -> RequirementTokens] : n \in 0..MaxLineTokens}

\* module paths and versions of a go.mod
ModulePaths ==
    {<<"a">>, <<"a", ".", "b">>, <<"a", "/", "b">>,
     <<"github", ".", "com", "/", "user", "/", "repo">>}

ModuleVersions == {<<"v1">>, <<"v1", ".", "0">>}

GoModLines ==
    {<<>>, <<"require", " ", "(">>, <<")">>}
    \cup {pre \o m : pre \in {<<>>, <<"require", " ">>}, m \in ModulePaths}
    \cup {pre \o m \o <<" ">> \o v \o post :
             pre \in {<<>>, <<" ">>, <<"require", " ">>}, m \in ModulePaths,
             v \in ModuleVersions, post \in {<<>>, <<" ", "// indirect">>}}

\* the dependencies of a package.json: plain and scoped names, version ranges
Dependencies ==
    [name : {<<"a">>, <<"a", ".", "b">>, <<"@", "a", "/", "b">>},
     version : {<<>>, <<" ">>, <<"1">>, <<"^", "1">>, <<"~", "1", ".", "0">>,
                <<">=", "1">>, <<"*">>, <<"1", ".", ".", "2">>}]

\* strings.TrimSpace
TrimSpace(s) ==
    LET ns == {i \in 1..Len(s) : s[i] # " "} IN
    IF ns = {} THEN <<>>
    ELSE SubSeq(s, CHOOSE i \in ns : \A j \in ns : i <= j,
                   CHOOSE i \in ns : \A j \in ns : i >= j)

\* parseRequirementLine, line 62: the separators in the order they are tried
RequirementSeps == <<"==", ">=", "<=", "~=", ">", "<">>

\* parseRequirementLine, lines 47-90
parseRequirementLine(line) ==
    LET l == TrimSpace(IF Contains(line, <<"#">>) THEN Before(line, "#") ELSE line)
        found == {k \in 1..Len(RequirementSeps) : Contains(l, <<RequirementSeps[k]>>)}
        sep == RequirementSeps[CHOOSE k \in found : \A j \in found : k <= j]
        split == found # {} /\ TrimSpace(Before(l, sep)) # <<>>
        named == IF split THEN TrimSpace(Before(l, sep)) ELSE l
        version == IF split THEN TrimSpace(After(l, sep)) ELSE <<"latest">>
        name == IF Contains(named, <<"[">>) THEN Before(named, "[") ELSE named
    IN IF name = <<>> THEN NoPackage
       ELSE [Name |-> name, Version |-> version, Ecosystem |-> "PyPI"]

\* ParseRequirementsTxt, lines 22-37, for one line of the file
RequirementsEntry(line) ==
    LET l == TrimSpace(line) IN
    IF l = <<>> \/ HasPrefix(l, <<"#">>) THEN NoPackage ELSE parseRequirementLine(l)

\* cleanNpmVersion, line 143: the prefixes in the order they are trimmed
NpmPrefixes == <<"^", "~", ">=", "<=", ">", "<", "=">>

RECURSIVE TrimPrefixes(_, _)
TrimPrefixes(version, k) ==
    IF k > Len(NpmPrefixes) THEN version
    ELSE TrimPrefixes(TrimPrefix(version, <<NpmPrefixes[k]>>), k + 1)

\* cleanNpmVersion, lines 138-159
cleanNpmVersion(version) ==
    LET v == TrimSpace(TrimPrefixes(TrimSpace(version), 1)) IN
    IF v = <<>> \/ v = <<"*">> \/ v = <<"x">> THEN <<"latest">> ELSE v

\* ParsePackageJSON, lines 113-131, for one dependency
PackageJSONEntry(dep) ==
    [Name |-> dep.name, Version |-> cleanNpmVersion(dep.version), Ecosystem |-> "npm"]

\* the first of strings.Fields(s)
FirstField(s) ==
    LET t == TrimSpace(s) IN IF Contains(t, <<" ">>) THEN Before(t, " ") ELSE t

\* s after the first of its fields
RestFields(s) ==
    LET t == TrimSpace(s) IN IF Contains(t, <<" ">>) THEN After(t, " ") ELSE <<>>

\* parseGoModLine, lines 205-224
parseGoModLine(line) ==
    LET l == TrimSpace(TrimPrefix(line, <<"require", " ">>))
        name == FirstField(l)
        version == FirstField(RestFields(l))
    IN IF version = <<>> THEN NoPackage
       ELSE [Name |-> name, Version |-> version, Ecosystem |-> "Go"]

\* ParseGoMod, lines 174-196, for one line of the file
GoModEntry(line, inRequire) ==
    LET l == TrimSpace(line) IN
    IF HasPrefix(l, <<"require", " ", "(">>) THEN NoPackage
    ELSE IF inRequire /\ l = <<")">> THEN NoPackage
    ELSE IF inRequire \/ HasPrefix(l, <<"require", " ">>) THEN parseGoModLine(l)
    ELSE NoPackage

\* the parsers at any entry of any manifest
PsInit ==
    /\ psFile \in ManifestFiles
    /\ psLine \in (IF psFile = "requirements.txt" THEN RequirementLines
                   ELSE IF psFile = "go.mod" THEN GoModLines ELSE {<<>>})
    /\ psInRequire \in (IF psFile = "go.mod" THEN BOOLEAN ELSE {FALSE})
    /\ psDep \in (IF psFile = "package.json" THEN Dependencies ELSE {NoDep})
    /\ psPc = "parse"
    /\ psPkg = NoPackage
    /\ psErr = "nil"

\* the parsers at rest: an empty line of a requirements.txt
PsIdle == PsInit /\ psFile = "requirements.txt" /\ psLine = <<>>

\* the parser of the manifest handles the entry: it appends a Package or
\* goes on to the next entry
ParseEntry ==
    /\ psPc = "parse"
    /\ psPkg' = IF psFile = "requirements.txt" THEN RequirementsEntry(psLine)
                ELSE IF psFile = "go.mod" THEN GoModEntry(psLine, psInRequire)
                ELSE PackageJSONEntry(psDep)
    /\ psPc' = IF psPkg' = NoPackage THEN "skipped" ELSE "emitted"
    /\ UNCHANGED <<psFile, psLine, psInRequire, psDep, psErr>>

\* ScanPackage, lines 276-281: the input validation before anything is sent
InputError(pkg) ==
    IF validatePackageName(pkg.Name) # "nil" THEN validatePackageName(pkg.Name)
    ELSE validateVersion(pkg.Version)

\* ScanPackages, lines 339-346, on the Package appended: ScanPackage
\* validates it, and its error is what the ScanResult of the package records
ScanParsed ==
    /\ psPc = "emitted"
    /\ psErr' = InputError(psPkg)
    /\ psPc' = "scanned"
    /\ UNCHANGED <<psFile, psLine, psInRequire, psDep, psPkg>>

PsNext ==
    \/ ParseEntry
    \/ ScanParsed

\* ------------------------------------------------------------------------
\* Tool environments
\* ------------------------------------------------------------------------

\* a path is the sequence of its elements; these are absolute paths

\* VenvManager.homeDir
HomeDir == << <<"home">>, <<".", "ophid">> >>

\* <home>/tools
ToolsDir == Append(HomeDir, <<"tools">>)

\* no directory
NoDir == <<>>

RECURSIVE Elements(_)
\* the elements of a path string, split at its separators
Elements(p) ==
    IF Contains(p, <<"/">>) THEN <<Before(p, "/")>> \o Elements(After(p, "/"))
    ELSE <<p>>

RECURSIVE Clean(_, _)
\* filepath.Clean on a rooted path: empty and "." elements go, and ".."
\* removes the element before it, or goes itself at the root
Clean(elems, done) ==
    IF elems = <<>> THEN done
    ELSE IF Head(elems) \in {<<>>, <<".">>} THEN Clean(Tail(elems), done)
    ELSE IF Head(elems) = <<".", ".">>
    THEN Clean(Tail(elems), IF done = <<>> THEN done ELSE SubSeq(done, 1, Len(done) - 1))
    ELSE Clean(Tail(elems), Append(done, Head(elems)))

\* VenvManager.Create, line 27, and VenvManager.Remove, line 74:
\* filepath.Join(v.homeDir, "tools", toolName, "venv")
venvPath(toolName) ==
    Clean(ToolsDir \o Elements(toolName) \o << <<"venv">> >>, <<>>)

\* the directory dir lies inside <home>/tools
InsideTools(dir) ==
    Len(dir) > Len(ToolsDir) /\ SubSeq(dir, 1, Len(ToolsDir)) = ToolsDir

VnInit ==
    /\ vnName \in SpecStrings
    /\ vnExists \in BOOLEAN
    /\ vnPc = "idle"
    /\ vnCreated = NoDir
    /\ vnRemoved = NoDir

VnIdle == VnInit /\ vnName = <<"user">> /\ vnExists = FALSE

\* Installer.Install, lines 307-331, with installFromPyPI, installFromGit and
\* installFromLocal of a Python project: DetectSource on the name; then the
\* install either fails before the environment is made (ok is false: the
\* scan blocks it, the clone fails) or VenvManager.Create(name) makes it and
\* the install goes through.
VnInstall(ok) ==
    /\ vnPc = "idle"
    /\ LET source == DetectSource(vnName, "", vnExists) IN
       IF source.Err # "none" \/ ~ok
       THEN /\ vnPc' = "failed"
            /\ UNCHANGED vnCreated
       ELSE /\ vnPc' = "installed"
            /\ vnCreated' = venvPath(vnName)
    /\ UNCHANGED <<vnName, vnExists, vnRemoved>>

\* Installer.Uninstall, lines 715-738: VenvManager.Remove(name) for a tool of
\* the manifest
VnUninstall ==
    /\ vnPc = "installed"
    /\ vnRemoved' = venvPath(vnName)
    /\ vnPc' = "uninstalled"
    /\ UNCHANGED <<vnName, vnExists, vnCreated>>

VnNext ==
    \/ \E ok \in BOOLEAN : VnInstall(ok)
    \/ VnUninstall

\* ------------------------------------------------------------------------
\* Specifications: each component runs with the others at rest
\* ------------------------------------------------------------------------

\* the installer at rest: one project, nothing installed
InstIdle == InstInit /\ srcTree = {}

Init == SupInit /\ ExtInit /\ RtInit /\ InstIdle /\ LbIdle /\ RtrInit
    /\ SrvIdle /\ PxIdle /\ RlInit /\ SdIdle /\ QryIdle /\ DlInit /\ MwIdle
    /\ CcIdle /\ SaInit /\ PsIdle /\ VnIdle

Next == SupNext /\ UNCHANGED <<extVars, rtVars, instVars, lbVars, rtrVars
    , srvVars, pxVars, rlVars, sdVars, qryVars, dlVars, mwVars, ccVars
    , saVars, psVars, vnVars>>

Spec == Init /\ [][Next]_vars

ExtStep == ExtNext /\ UNCHANGED <<supVars, rtVars, instVars, lbVars, rtrVars
    , srvVars, pxVars, rlVars, sdVars, qryVars, dlVars, mwVars, ccVars
    , saVars, psVars, vnVars>>

ExtSpec == Init /\ [][ExtStep]_vars

RtStep == RtNext /\ UNCHANGED <<supVars, extVars, instVars, lbVars, rtrVars
    , srvVars, pxVars, rlVars, sdVars, qryVars, dlVars, mwVars, ccVars
    , saVars, psVars, vnVars>>

RtSpec == Init /\ [][RtStep]_vars

InstStep == InstNext /\ UNCHANGED <<supVars, extVars, rtVars, lbVars
    , rtrVars, srvVars, pxVars, rlVars, sdVars, qryVars, dlVars, mwVars
    , ccVars, saVars, psVars, vnVars>>

InstStart == SupInit /\ ExtInit /\ RtInit /\ InstInit /\ LbIdle /\ RtrInit
    /\ SrvIdle /\ PxIdle /\ RlInit /\ SdIdle /\ QryIdle /\ DlInit /\ MwIdle
    /\ CcIdle /\ SaInit /\ PsIdle /\ VnIdle

InstSpec == InstStart /\ [][InstStep]_vars

LbStep == LbNext /\ UNCHANGED <<supVars, extVars, rtVars, instVars, rtrVars
    , srvVars, pxVars, rlVars, sdVars, qryVars, dlVars, mwVars, ccVars
    , saVars, psVars, vnVars>>

LbStart == SupInit /\ ExtInit /\ RtInit /\ InstIdle /\ LbInit /\ RtrInit
    /\ SrvIdle /\ PxIdle /\ RlInit /\ SdIdle /\ QryIdle /\ DlInit /\ MwIdle
    /\ CcIdle /\ SaInit /\ PsIdle /\ VnIdle

LbSpec == LbStart /\ [][LbStep]_vars

RtrStep == RtrNext /\ UNCHANGED <<supVars, extVars, rtVars, instVars, lbVars
    , srvVars, pxVars, rlVars, sdVars, qryVars, dlVars, mwVars, ccVars
    , saVars, psVars, vnVars>>

RtrSpec == Init /\ [][RtrStep]_vars

SrvStep == SrvNext /\ UNCHANGED <<supVars, extVars, rtVars, instVars, lbVars
    , rtrVars, pxVars, rlVars, sdVars, qryVars, dlVars, mwVars, ccVars
    , saVars, psVars, vnVars>>

SrvStart == SupInit /\ ExtInit /\ RtInit /\ InstIdle /\ LbIdle /\ RtrInit
    /\ SrvInit /\ PxIdle /\ RlInit /\ SdIdle /\ QryIdle /\ DlInit /\ MwIdle
    /\ CcIdle /\ SaInit /\ PsIdle /\ VnIdle

SrvSpec == SrvStart /\ [][SrvStep]_vars

PxStep == PxNext /\ UNCHANGED <<supVars, extVars, rtVars, instVars, lbVars
    , rtrVars, srvVars, rlVars, sdVars, qryVars, dlVars, mwVars, ccVars
    , saVars, psVars, vnVars>>

PxStart == SupInit /\ ExtInit /\ RtInit /\ InstIdle /\ LbIdle /\ RtrInit
    /\ SrvIdle /\ PxInit /\ RlInit /\ SdIdle /\ QryIdle /\ DlInit /\ MwIdle
    /\ CcIdle /\ SaInit /\ PsIdle /\ VnIdle

PxSpec == PxStart /\ [][PxStep]_vars

RlStep == RlNext /\ UNCHANGED <<supVars, extVars, rtVars, instVars, lbVars
    , rtrVars, srvVars, pxVars, sdVars, qryVars, dlVars, mwVars, ccVars
    , saVars, psVars, vnVars>>

RlSpec == Init /\ [][RlStep]_vars

SdStep == SdNext /\ UNCHANGED <<supVars, extVars, rtVars, instVars, lbVars
    , rtrVars, srvVars, pxVars, rlVars, qryVars, dlVars, mwVars, ccVars
    , saVars, psVars, vnVars>>

SdStart == SupInit /\ ExtInit /\ RtInit /\ InstIdle /\ LbIdle /\ RtrInit
    /\ SrvIdle /\ PxIdle /\ RlInit /\ SdInit /\ QryIdle /\ DlInit /\ MwIdle
    /\ CcIdle /\ SaInit /\ PsIdle /\ VnIdle

SdSpec == SdStart /\ [][SdStep]_vars

QryStep == QryNext /\ UNCHANGED <<supVars, extVars, rtVars, instVars, lbVars
    , rtrVars, srvVars, pxVars, rlVars, sdVars, dlVars, mwVars, ccVars
    , saVars, psVars, vnVars>>

QryStart == SupInit /\ ExtInit /\ RtInit /\ InstIdle /\ LbIdle /\ RtrInit
    /\ SrvIdle /\ PxIdle /\ RlInit /\ SdIdle /\ QryInit /\ DlInit /\ MwIdle
    /\ CcIdle /\ SaInit /\ PsIdle /\ VnIdle

QrySpec == QryStart /\ [][QryStep]_vars

DlStep == DlNext /\ UNCHANGED <<supVars, extVars, rtVars, instVars, lbVars
    , rtrVars, srvVars, pxVars, rlVars, sdVars, qryVars, mwVars, ccVars
    , saVars, psVars, vnVars>>

DlSpec == Init /\ [][DlStep]_vars

MwStep == MwNext /\ UNCHANGED <<supVars, extVars, rtVars, instVars, lbVars
    , rtrVars, srvVars, pxVars, rlVars, sdVars, qryVars, dlVars, ccVars
    , saVars, psVars, vnVars>>

MwStart == SupInit /\ ExtInit /\ RtInit /\ InstIdle /\ LbIdle /\ RtrInit
    /\ SrvIdle /\ PxIdle /\ RlInit /\ SdIdle /\ QryIdle /\ DlInit /\ MwInit
    /\ CcIdle /\ SaInit /\ PsIdle /\ VnIdle

MwSpec == MwStart /\ [][MwStep]_vars

CcStep == CcNext /\ UNCHANGED <<supVars, extVars, rtVars, instVars, lbVars
    , rtrVars, srvVars, pxVars, rlVars, sdVars, qryVars, dlVars, mwVars
    , saVars, psVars, vnVars>>

CcStart == SupInit /\ ExtInit /\ RtInit /\ InstIdle /\ LbIdle /\ RtrInit
    /\ SrvIdle /\ PxIdle /\ RlInit /\ SdIdle /\ QryIdle /\ DlInit /\ MwIdle
    /\ CcInit /\ SaInit /\ PsIdle /\ VnIdle

CcSpec == CcStart /\ [][CcStep]_vars

SaStep == SaNext /\ UNCHANGED <<supVars, extVars, rtVars, instVars, lbVars
    , rtrVars, srvVars, pxVars, rlVars, sdVars, qryVars, dlVars, mwVars
    , ccVars, psVars, vnVars>>

SaSpec == Init /\ [][SaStep]_vars

PsStep == PsNext /\ UNCHANGED <<supVars, extVars, rtVars, instVars, lbVars
    , rtrVars, srvVars, pxVars, rlVars, sdVars, qryVars, dlVars, mwVars
    , ccVars, saVars, vnVars>>

PsStart == SupInit /\ ExtInit /\ RtInit /\ InstIdle /\ LbIdle /\ RtrInit
    /\ SrvIdle /\ PxIdle /\ RlInit /\ SdIdle /\ QryIdle /\ DlInit /\ MwIdle
    /\ CcIdle /\ SaInit /\ PsInit /\ VnIdle

PsSpec == PsStart /\ [][PsStep]_vars

VnStep == VnNext /\ UNCHANGED <<supVars, extVars, rtVars, instVars, lbVars
    , rtrVars, srvVars, pxVars, rlVars, sdVars, qryVars, dlVars, mwVars
    , ccVars, saVars, psVars>>

VnStart == SupInit /\ ExtInit /\ RtInit /\ InstIdle /\ LbIdle /\ RtrInit
    /\ SrvIdle /\ PxIdle /\ RlInit /\ SdIdle /\ QryIdle /\ DlInit /\ MwIdle
    /\ CcIdle /\ SaInit /\ PsIdle /\ VnInit

VnSpec == VnStart /\ [][VnStep]_vars

\* ------------------------------------------------------------------------
\* Properties of the components
\* ------------------------------------------------------------------------

\* C1: every location Extract creates or writes lies inside the destination:
\* its canonical path has destDir plus the separator as a prefix, also when
\* the entry's name passes through a symlink an earlier entry created.
C1_WritesInsideDest == \A p \in written : HasDestPrefix(p)

\* the last call was a Python install that got as far as the checksum step
PythonVerified ==
    rtLog.type = RuntimePython /\ rtLog.result \in {"ok", "err_extract", "err_sha256"}

\* C2: a Python install extracts only after the archive's SHA-256 matched
\* the hash published for it, and when no hash was obtained or the hashes
\* differ the install fails and extracts nothing.
C2_ExtractOnlyVerified ==
    PythonVerified =>
        IF rtLog.expected # "none" /\ rtLog.expected = rtLog.actual
        THEN TRUE
        ELSE rtLog.result = "err_sha256" /\ ~rtLog.extracted

\* the step was a registry install with require_scan set, scanning not
\* skipped and a scan that reported a critical vulnerability
BlockedRegistryInstall ==
    /\ instLog'.op = "install"
    /\ instLog'.src = SourcePyPI
    /\ instLog'.require
    /\ ~instLog'.skip
    /\ instLog'.critical > 0
    /\ instOps' = instOps + 1

\* C3: a registry install with require_scan set and scanning not skipped
\* whose pre-flight scan reports a critical vulnerability returns an error,
\* creates no environment directory and leaves the manifest in memory and on
\* disk unchanged.
C3_BlockedInstallNoEffect ==
    [][BlockedRegistryInstall =>
          /\ instLog'.result = "err_blocked"
          /\ instEnv' = instEnv
          /\ instMem' = instMem
          /\ instDisk' = instDisk]_vars

\* a blocked registry install, made when another tool was installed
C3_Witness ==
    /\ instLog.op = "install"
    /\ instLog.src = SourcePyPI
    /\ instLog.require /\ ~instLog.skip /\ instLog.critical > 0
    /\ instLog.result = "err_blocked"
    /\ \E n \in ToolNames : n # instLog.name /\ instMem[n] # NoTool
    /\ instEnv[instLog.name] = "none"

\* the results of an install that failed before create_env
FailedBeforeEnv ==
    {"err_source", "err_invalid", "err_unknown", "err_clone", "err_blocked"}

\* C4: for every source kind, an install that fails before create_env leaves
\* the home directory, the source directory and the manifest as they were.
C4_EarlyFailureNoEffect ==
    [][(instLog'.op = "install" /\ instOps' = instOps + 1
        /\ instLog'.result \in FailedBeforeEnv) =>
          /\ instEnv' = instEnv
          /\ instClone' = instClone
          /\ instLocal' = instLocal
          /\ instMem' = instMem
          /\ instDisk' = instDisk]_vars

\* C11: a backend SelectBackend returns is healthy at the instant it is
\* returned, whatever other threads do to the health statuses meanwhile.
C11_ReturnedIsHealthy ==
    \A t \in LbThreads :
        (lbPc[t] = "returned" /\ lbRet[t] \in Backends)
            => lbRetStatus[t] = HealthStatusHealthy

\* how often backend b occurs among the picks
PickCount(b) == Cardinality({i \in 1..Len(lbPicks) : lbPicks[i] = b})

\* C13: on a round-robin load balancer whose backends all stay healthy, any
\* 2*N+1 consecutive selections pick every backend twice or three times.
C13_RoundRobinFair ==
    (lbStrategy = StrategyRoundRobin /\ Len(lbPicks) = PickWindow)
        => \A b \in Backends : PickCount(b) \in {2, 3}

\* the routes of the table that match the request served last
Matching == {i \in 1..Len(rtrRoutes) : matchRoute(rtrRoutes[i], rtrReq)}

\* C16: the router serves a request with the first route, in declaration
\* order, whose host, path and method patterns all match, also when a later
\* route matches too, and answers 404 when no route matches.
C16_FirstMatchServes ==
    rtrReq # NoRequest =>
        /\ Matching = {} => rtrServed = 0
        /\ Matching # {} =>
              rtrServed \in Matching /\ \A i \in Matching : rtrServed <= i

\* a request served by the first route although the second, with an exact
\* host and a path pattern, matches it too
C16_Witness ==
    /\ rtrReq # NoRequest
    /\ rtrServed = 1
    /\ Matching = {1, 2}
    /\ rtrRoutes[1].Host = <<"*">> /\ rtrRoutes[1].Path = <<>>
    /\ rtrRoutes[2].Host = <<"a", ".", "x">> /\ rtrRoutes[2].Path # <<>>

\* C15: a request that arrives after Reload has returned successfully on a
\* started server is routed by the router Reload built; the requests in
\* flight at that moment finish on the router they started with.
C15_ReloadTakesEffect ==
    \A q \in SrvRequests :
        (reqPc[q] = "serving" /\ reqRouter[q] \in Routers)
            => reqRouter[q] = reqExpect[q]

\* C12: a request on a reverse-proxy route that has no healthy backend,
\* a route without backends and without target included, is answered 503,
\* is sent to no backend and changes no connection counter.
C12_NoHealthyGives503 ==
    \A t \in PxThreads :
        (pxPc[t] = "done" /\ pxNoHealthy[t])
            => /\ pxResp[t] = StatusServiceUnavailable
               /\ ~pxContacted[t]
               /\ pxDefer[t] = NilHealth

\* Health.Connections of backend b as GetConnections reports it
ActiveConnections(b) == IF pxHealth[b] = NilHealth THEN 0 ELSE pxConns[pxHealth[b]]

\* the requests in flight on backend b: counted and not yet complete
InFlight(b) == {t \in PxThreads : pxBackend[t] = b /\ pxPc[t] \in {"counted", "proxying"}}

\* C14: under every interleaving of requests, the active connections of a
\* backend are never negative and equal the number of proxied requests in
\* flight on it.
C14_ConnectionsMatchInFlight ==
    \A b \in Backends :
        ActiveConnections(b) >= 0 /\ ActiveConnections(b) = Cardinality(InFlight(b))

\* does the install path of a tool name an existing path: the venv of the
\* tool, the clone, the local source directory, or the empty string
PathExists(env, clone, name, path) ==
    IF path = "venv" THEN env[name] = "venv"
    ELSE IF path = "clone" THEN clone.exists
    ELSE IF path = "local" THEN TRUE
    ELSE FALSE

\* C17: after any sequence of successful Install and Uninstall calls on one
\* installer, every Tool in the manifest has an install path that names an
\* existing path on disk.
C17_InstallPathsExist ==
    instClean =>
        \A n \in ToolNames :
            instMem[n] # NoTool
                => PathExists(instEnv, instClone, n, instMem[n].InstallPath)

\* C18: after Uninstall(name) succeeds for a tool in the manifest, the
\* install path of the tool no longer exists on disk and name is absent
\* from the manifest in memory and in manifest.json.
C18_UninstallRemoves ==
    [][\A n \in ToolNames :
          (instOps' = instOps + 1 /\ instLog'.op = "uninstall"
               /\ instLog'.name = n /\ instLog'.result = "ok")
              => /\ ~PathExists(instEnv', instClone', n, instMem[n].InstallPath)
                 /\ instMem'[n] = NoTool
                 /\ instDisk'.tools[n] = NoTool]_vars

\* C19: constructing an installer yields an empty manifest and no error
\* whenever manifest.json is missing, cannot be read or cannot be parsed.
C19_UnusableManifestIsEmpty ==
    (instLog.op = "new" /\ instLog.src \in {"missing", "read_fail", "parse_fail"})
        => /\ instLog.result = "ok"
           /\ \A n \in ToolNames : instMem[n] = NoTool

\* every request sent has its own token, handed out before it was sent
TokenBeforeSend ==
    /\ Len(rlSent) <= Len(rlGrants)
    /\ \A c \in ScanCallers : rlPc[c] = "sent" => rlActAt[c] <= rlSent[Len(rlSent)]

\* C20 as stated: every query of a scanner takes a token of the shared
\* bucket before its request is sent, at most one query is sent in a refill
\* period, and K queries span at least K-1 refill periods.
C20_OneSendPerPeriod ==
    /\ TokenBeforeSend
    /\ \A i, j \in 1..Len(rlSent) : i < j => rlSent[j] - rlSent[i] >= RefillTicks
    /\ rlSent # <<>> => rlNow - rlGrants[1] >= (Len(rlSent) - 1) * RefillTicks

\* C20, amended: every query takes a token of the shared bucket before its
\* request is sent, the tokens are for instants at least one refill period
\* apart, and K queries sent span at least K-1 refill periods from the
\* instant of the first token; two requests can still leave within one
\* period when a caller is held up between its token and its request.
C20_TokensPacedBurstSpans ==
    /\ TokenBeforeSend
    /\ \A i, j \in 1..Len(rlGrants) : i < j => rlGrants[j] - rlGrants[i] >= RefillTicks
    /\ rlSent # <<>> => rlNow - rlGrants[1] >= (Len(rlSent) - 1) * RefillTicks

\* all the queries were sent, the last at the earliest instant allowed, by
\* both callers
C20_Witness ==
    /\ Len(rlSent) = MaxQueries
    /\ rlNow = rlGrants[1] + (MaxQueries - 1) * RefillTicks
    /\ rlPc["c1"] = "sent" /\ rlPc["c2"] = "sent"

\* ------------------------------------------------------------------------
\* Runtime manager: installs over an existing directory
\* ------------------------------------------------------------------------

\* the step is an install of rt (a removal logs "removed" or
\* "err_not_installed")
InstallStepOf(rt) ==
    /\ rtLog'.type = rt
    /\ rtLog'.result \notin {"removed", "err_not_installed"}

\* C22: an install of a runtime whose directory already exists returns the
\* existing runtime and changes neither the download cache nor the
\* directory, so a second install after a first one changes nothing.
C22_InstallIdempotent ==
    [][\A rt \in RuntimeTypes :
          (rtDir[rt] # "none" /\ InstallStepOf(rt)) =>
              /\ rtLog'.result = "ok_existing"
              /\ rtDir' = rtDir
              /\ rtCache' = rtCache]_vars

\* a completely extracted runtime was installed again
C22_Witness ==
    /\ rtLog.result = "ok_existing"
    /\ rtDir[rtLog.type] = "complete"
    /\ rtCache[rtLog.type] # "none"

\* C28 as stated: after an install failed at integrity verification or
\* during extraction a partial target directory exists.
C28_FailureLeavesPartialDir ==
    rtLog.result \in {"err_sha256", "err_extract"} => rtDir[rtLog.type] = "partial"

\* C28, amended: an install that failed during extraction after the
\* destination was created leaves a partial target directory, and the next
\* install of the same runtime returns it as installed without touching the
\* cache or the directory; an install refused at integrity verification
\* leaves no target directory.
C28_PartialDirIsReturned ==
    /\ [](rtLog.result = "err_extract" /\ rtLog.extracted => rtDir[rtLog.type] = "partial")
    /\ [](rtLog.result = "err_sha256" => rtDir[rtLog.type] = "none")
    /\ [][\A rt \in RuntimeTypes :
             (rtDir[rt] = "partial" /\ InstallStepOf(rt)) =>
                 /\ rtLog'.result = "ok_existing"
                 /\ rtDir' = rtDir
                 /\ rtCache' = rtCache]_vars

\* a partial directory was returned as an installed runtime
C28_Witness ==
    /\ rtLog.result = "ok_existing"
    /\ rtDir[rtLog.type] = "partial"

\* ------------------------------------------------------------------------
\* Tool installer: the scan before the environment
\* ------------------------------------------------------------------------

\* the results of an install that went past the policy test to create_env
ReachedCreateEnv == {"err_venv", "err_pip", "err_save", "panic", "ok"}

\* C29: with RequireScan set and scanning not skipped, an install whose
\* vulnerability query failed is aborted before create_env.
C29_FailedQueryAborts ==
    (/\ instLog.op = "install"
     /\ instLog.require
     /\ ~instLog.skip
     /\ instLog.failed > 0) => instLog.result \notin ReachedCreateEnv

\* C30: a local install of a valid project with scanning enabled and no
\* critical finding, whose environment, package install and manifest save
\* do not fail, returns a Tool and leaves a manifest entry with source local.
C30_LocalInstallCompletes ==
    (/\ instLog.op = "install"
     /\ instLog.src = SourceLocal
     /\ ~instLog.skip
     /\ instLog.critical = 0
     /\ instLog.result \notin {"err_invalid", "err_unknown", "err_venv",
                               "err_pip", "err_save"})
        => /\ instLog.result = "ok"
           /\ instMem[instLog.name].Source = SourceLocal
           /\ instDisk.tools[instLog.name].Source = SourceLocal

\* ------------------------------------------------------------------------
\* Source detector: the order of the rules
\* ------------------------------------------------------------------------

\* the seven rules of source detection, as conditions on the specification
RuleApplies(i, spec, exists) ==
    CASE i = 1 -> \/ exists
                  \/ \E p \in {<<".", "/">>, <<".", ".", "/">>, <<"/">>, <<"c", ":">>} :
                        HasPrefix(spec, p)
      [] i = 2 -> HasPrefix(spec, GitPlus) \/ HasPrefix(spec, GitScheme)
      [] i = 3 -> \E k \in 1..Len(spec) : HasPrefix(SubSeq(spec, k, Len(spec)), HostName)
      [] i = 4 -> \E k \in 2..(Len(spec) - 1) :
                     /\ spec[k] = "/"
                     /\ \A j \in 1..Len(spec) :
                           j # k => spec[j] \in Words \cup {"-", "_", "."}
      [] i = 5 -> HasPrefix(spec, HttpScheme) \/ HasPrefix(spec, HttpsScheme)
      [] i = 6 -> HasPrefix(spec, FileScheme)
      [] OTHER -> TRUE

\* the first rule that applies
FirstRule(spec, exists) ==
    CHOOSE i \in 1..7 :
        RuleApplies(i, spec, exists) /\ \A j \in 1..(i - 1) : ~RuleApplies(j, spec, exists)

\* the source type each rule gives
RuleType ==
    <<SourceLocal, SourceGit, SourceGitHub, SourceGitHub, SourceGit, SourceLocal, SourcePyPI>>

MustReject(name, version) ==
    \/ name = <<>>
    \/ \E i \in 1..(Len(name) - 1) : name[i] = "." /\ name[i + 1] = "."
    \/ \E i \in 1..Len(name) : name[i] = "/"
    \/ Len(name) > 256
    \/ version = <<>>
    \/ \E i \in 1..(Len(version) - 1) : version[i] = "." /\ version[i + 1] = "."
    \/ Len(version) > 64

\* C21: a query whose name is empty, contains ".." or "/" or is longer than
\* 256 characters, or whose version is empty, contains ".." or is longer
\* than 64 characters, ends in a validation error, and no rate-limit token
\* is taken and no request is made for it.
C21_InvalidQueryRejectedFirst ==
    (MustReject(qName, qVersion) /\ qPc # "called") =>
        /\ qPc \in {"invalid package name", "invalid version"}
        /\ qTokens = 0
        /\ qSent = <<>>

\* a name with a "/" and a good version was refused
C21_Witness ==
    /\ qName = <<"a", "/", "b">>
    /\ qVersion = <<"1", ".", "0">>
    /\ qPc = "invalid package name"
    /\ qTokens = 0
    /\ qSent = <<>>

\* C24: every query sent to the database carries an ecosystem label from
\* {PyPI, npm, Go}, and the purl type follows from that label.
C24_CanonicalEcosystem ==
    \A i \in 1..Len(qSent) :
        /\ qSent[i] \in {"PyPI", "npm", "Go"}
        /\ buildPURL(qSent[i]) \in {"pkg:pypi", "pkg:npm", "pkg:golang"}

\* ------------------------------------------------------------------------
\* Downloader: what the cache shows
\* ------------------------------------------------------------------------

\* C27: the archive is at its final name in the cache only when it was
\* downloaded completely, an install that finds the cached file gets a
\* complete archive, and a failed download leaves no file at the final name.
C27_CacheShowsCompleteArchives ==
    /\ dlFile # "partial"
    /\ \A t \in Installs : dlPc[t] = "cached" => dlGot[t] = "complete"
    /\ \A t \in Installs :
          (dlPc[t] = "download failed" /\ dlPc[OtherInstall(t)] # "copying")
              => dlFile # "partial"

\* ------------------------------------------------------------------------
\* Router: middleware before the backend
\* ------------------------------------------------------------------------

\* C26: for a request matched to a route, every middleware named in the
\* route's configuration has run around the handler, and a request the rate
\* limiter refuses is answered 429 without a backend being selected.
C26_MiddlewareBeforeBackend ==
    (mwOut # "none" /\ mwMatched) =>
        /\ mwApplied = mwList
        /\ (\E i \in 1..Len(mwList) : mwList[i] = "ratelimit") /\ ~mwAllow[mwClient]
               => mwOut = RateLimiterMiddleware(mwAllow[mwClient], "backend selected")

\* ------------------------------------------------------------------------
\* Load balancer: weighted selection
\* ------------------------------------------------------------------------

\* the sum of the weights of all the backends
AllWeights == TotalWeight([b \in Backends |-> b])

\* how often backend b is among the last n picks
PickedInLast(b, n) ==
    Cardinality({i \in (Len(lbPicks) - n + 1)..Len(lbPicks) : lbPicks[i] = b})

\* C25: on a weighted load balancer over a fixed healthy list, the last W
\* selections, W being the sum of the weights with weights of zero or less
\* counted as 1, picked each backend as many times as its weight.
C25_WeightedWindow ==
    (lbStrategy = StrategyWeighted /\ Len(lbPicks) >= AllWeights) =>
        \A b \in Backends : PickedInLast(b, AllWeights) = EffectiveWeight(b)

\* ------------------------------------------------------------------------
\* Source detector: shorthand with a ref
\* ------------------------------------------------------------------------

\* the specification is <user>/<repo>@<ref>, and is neither a local path nor
\* a git URL nor a URL of the repository host
ShorthandWithRef(spec, exists) ==
    /\ Contains(spec, <<"@">>)
    /\ After(spec, "@") # <<>>
    /\ RuleApplies(4, Before(spec, "@"), exists)
    /\ \A i \in 1..3 : ~RuleApplies(i, spec, exists)

\* C31: <user>/<repo>@<ref> is detected as a remote-repository source with
\* the URL https://github.com/<user>/<repo>.git and the branch <ref>.
C31_ShorthandRefDetected ==
    (sdOut # NotDetected /\ sdOpt = "" /\ ShorthandWithRef(sdSpec, sdExists)) =>
        /\ sdOut.Type = SourceGitHub
        /\ sdOut.URL = HttpsScheme \o HostName \o <<"/">> \o Before(sdSpec, "@") \o DotGit
        /\ sdOut.Branch = After(sdSpec, "@")

\* ------------------------------------------------------------------------
\* Tool installer: the ecosystem of a source tree
\* ------------------------------------------------------------------------

\* the order of the ecosystem files: the first entry with a file in the tree
EcosystemOrder ==
    <<[files |-> {"setup.py", "pyproject.toml", "requirements.txt"}, eco |-> "python"],
      [files |-> {"go.mod"}, eco |-> "go"],
      [files |-> {"package.json"}, eco |-> "node"],
      [files |-> {"Gemfile"}, eco |-> "ruby"],
      [files |-> {"Cargo.toml"}, eco |-> "rust"]>>

FirstEcosystem(tree) ==
    LET hits == {i \in 1..Len(EcosystemOrder) : EcosystemOrder[i].files \cap tree # {}}
    IN IF hits = {} THEN "unknown"
       ELSE EcosystemOrder[CHOOSE i \in hits : \A j \in hits : i <= j].eco

\* C32: for the tree of a remote-repository or local install, both
\* installers detect the first ecosystem in the order python, go, node,
\* ruby, rust, and each accepts the tree exactly when that ecosystem is not
\* unknown.
C32_SameEcosystemBothInstallers ==
    (instLog.op = "install" /\ instLog.src \in {SourceGit, SourceGitHub, SourceLocal}) =>
        /\ GitDetectEcosystem(srcTree) = FirstEcosystem(srcTree)
        /\ DetectEcosystem(srcTree) = FirstEcosystem(srcTree)
        /\ ValidateLocalPath(TRUE, srcTree) <=> FirstEcosystem(srcTree) # "unknown"
        /\ (instLog.src # SourceLocal /\ instLog.result # "err_clone") =>
               (instLog.result = "err_unknown" <=> FirstEcosystem(srcTree) = "unknown")

\* ------------------------------------------------------------------------
\* Scanner: critical vulnerabilities
\* ------------------------------------------------------------------------

\* a severity record of type CVSS_V3 whose score starts with CVSS:3 and
\* contains /C:H or /9.
IsCriticalRecord(sev) ==
    sev.Type = "CVSS_V3" /\ sev.Score.v3 /\ (sev.Score.ch \/ sev.Score.nine)

\* the vulnerabilities with at least one critical severity record
CriticalVulns(vulns) ==
    {i \in 1..Len(vulns) : \E k \in 1..Len(vulns[i]) : IsCriticalRecord(vulns[i][k])}

\* C33: CriticalCount of a scan result is the number of its vulnerabilities
\* that have at least one critical severity record, and is never more than
\* the number of vulnerabilities.
C33_CriticalCountsVulnerabilities ==
    ccDone =>
        /\ ccCount = Cardinality(CriticalVulns(ccVulns))
        /\ ccCount <= Len(ccVulns)

\* ------------------------------------------------------------------------
\* Supervisor: stopped processes and live children
\* ------------------------------------------------------------------------

\* C34: after Stop(name) succeeded on a record, that record is never running
\* again and has no live child again, auto_restart and remaining retries
\* notwithstanding.
C34_StoppedStaysStopped ==
    \A r \in stopOk : Status[r] # StatusRunning /\ Cmd[r] # "alive"

\* C35: every live child belongs to the record registered under its name, so
\* a name has at most one live child.
C35_OneLiveChildPerName ==
    \A r \in Recs : Cmd[r] = "alive" => processes[Config[r].Name] = r

\* C37: when StopAll returns, no registered process is running.
C37_StopAllStopsEveryProcess ==
    saPc = "returned" => \A n \in SaNames : saProcs[n] # StatusRunning

\* ------------------------------------------------------------------------
\* Load balancer: the whole range of the selection counter
\* ------------------------------------------------------------------------

\* C40: whatever the value of the int32 counter, negative values after the
\* wrap-around included, round-robin and weighted selection over a non-empty
\* healthy list return a member of that list and never index out of range.
C40_SelectionInRange ==
    [][\A t \in LbThreads :
          /\ lbPc[t] = "scanned"
          /\ lbPc'[t] = "returned"
          /\ lbStrategy \in {StrategyRoundRobin, StrategyWeighted}
          /\ lbSnap[t] # <<>>
          => \E i \in 1..Len(lbSnap[t]) : lbRet'[t] = lbSnap[t][i]]_vars

\* ------------------------------------------------------------------------
\* Reverse proxy: successive requests of a round-robin route
\* ------------------------------------------------------------------------

\* C36: the picks of NumBackends successive requests of the route, made with
\* every backend healthy, cover all the backends: the round-robin position
\* carries over from one request to the next.
C36_RoundRobinCarriesOver ==
    Len(pxPicks) = NumBackends => {pxPicks[i] : i \in 1..Len(pxPicks)} = Backends

\* ------------------------------------------------------------------------
\* Dependency parsers: what reaches the vulnerability database
\* ------------------------------------------------------------------------

\* C39: every Package a manifest parser emits passes ScanPackage's input
\* validation, so its query is sent and no input error is recorded for it.
C39_ParsedPackagesAreQueried ==
    psPc = "scanned" => psErr = "nil"

\* ------------------------------------------------------------------------
\* Tool environments: confinement to <home>/tools
\* ------------------------------------------------------------------------

\* C38: the environment directory Install creates and the one Uninstall
\* deletes lie inside <home>/tools, whatever name Install accepted.
C38_EnvironmentInsideTools ==
    /\ vnCreated # NoDir => InsideTools(vnCreated)
    /\ vnRemoved # NoDir => InsideTools(vnRemoved)

====
